---------------------------- MODULE Spec2Model ----------------------------
(***************************************************************************)
(* State-machine model of trybook's task-orchestration engine.             *)
(*                                                                         *)
(* Spec      one PromptExecution (src/trybook.go): apiRunPromptHandler,    *)
(*           executePromptTask, runLLMCommand, runBazelQueryAndTest and    *)
(*           one client polling apiSummarizeTaskHandler.                   *)
(* SpecAgent the same execution for the prompt "fix the bug", which does   *)
(*           not trigger the build tool; the agent prints any line.        *)
(* SpecCache as SpecAgent, polled by two concurrent clients.               *)
(* SpecPoll  as SpecAgent with one line, also polled through               *)
(*           apiPollTaskHandler, with known and unknown IDs.               *)
(* SpecLive  the execution without pollers, every started goroutine        *)
(*           weakly fair, for the completion properties.                   *)
(* SpecTask  one Task of the single-agent version (src/trybook.go from     *)
(*           line 2080): executePromptTask appends each line to the task's *)
(*           output as it is read; apiPollTaskHandler and                  *)
(*           apiSummarizeTaskHandler poll it.                              *)
(* SpecSync  repoHandler's manageRepo, called again and again on one clone *)
(*           directory.                                                    *)
(* SpecRepo  one RepoOperation of the repo-operation version               *)
(*           (src/unnamed/part_001): apiStartRepoOperationHandler, the     *)
(*           manageRepo goroutine and apiPollRepoOperationHandler.         *)
(* SpecIDs   the registry over several accepted run-prompt requests.       *)
(* SpecNotebook  one createNotebookHandler call and the existence checks   *)
(*           of the handlers that look for the notebook's directory.       *)
(*                                                                         *)
(* Text is a sequence of one-character strings; a summary is a sequence of *)
(* words.  The model follows one execution: executions share nothing but   *)
(* the registry map.                                                       *)
(***************************************************************************)
EXTENDS Integers, Sequences, FiniteSets, TLC

\* ------------------------------------------------------------------ bounds

\* Lines the external agent process (or git) emits before it exits.
MaxLines == 2

\* ------------------------------------------------------------ text helpers

\* unicode.IsSpace on the characters the model uses.
IsSpace(c) == c \in {" ", "\n", "\t"}

RECURSIVE TrimLeft(_)
TrimLeft(s) ==
    IF s = <<>> THEN <<>>
    ELSE IF IsSpace(Head(s)) THEN TrimLeft(Tail(s)) ELSE s

RECURSIVE TrimRight(_)
TrimRight(s) ==
    IF s = <<>> THEN <<>>
    ELSE IF IsSpace(s[Len(s)]) THEN TrimRight(SubSeq(s, 1, Len(s) - 1)) ELSE s

\* strings.TrimSpace
TrimSpace(s) == TrimRight(TrimLeft(s))

\* strings.HasPrefix
HasPrefix(s, p) == Len(s) >= Len(p) /\ SubSeq(s, 1, Len(p)) = p

\* strings.TrimPrefix
TrimPrefix(s, p) == IF HasPrefix(s, p) THEN SubSeq(s, Len(p) + 1, Len(s)) ELSE s

\* strings.Fields: the maximal runs of non-space characters.
RECURSIVE FieldsFrom(_, _, _)
FieldsFrom(s, cur, acc) ==
    IF s = <<>> THEN (IF cur = <<>> THEN acc ELSE Append(acc, cur))
    ELSE IF IsSpace(Head(s))
         THEN FieldsFrom(Tail(s), <<>>, IF cur = <<>> THEN acc ELSE Append(acc, cur))
         ELSE FieldsFrom(Tail(s), Append(cur, Head(s)), acc)

Fields(s) == FieldsFrom(s, <<>>, <<>>)

\* strings.Split(s, "-")
RECURSIVE SplitFrom(_, _, _)
SplitFrom(s, cur, acc) ==
    IF s = <<>> THEN Append(acc, cur)
    ELSE IF Head(s) = "-"
         THEN SplitFrom(Tail(s), <<>>, Append(acc, cur))
         ELSE SplitFrom(Tail(s), Append(cur, Head(s)), acc)

SplitDash(s) == SplitFrom(s, <<>>, <<>>)

\* strings.Contains(summary, word) on a summary held as a sequence of words.
Contains(s, w) == \E i \in 1..Len(s) : s[i] = w

\* Number of non-space characters of a text.
RECURSIVE CountNonSpace(_)
CountNonSpace(s) ==
    IF s = <<>> THEN 0
    ELSE (IF IsSpace(Head(s)) THEN 0 ELSE 1) + CountNonSpace(Tail(s))

\* ------------------------------------------------------------------ inputs

\* The literal trigger prefix of executePromptTask.
TestPrefix == <<"t", "e", "s", "t", " ">>

\* Prompts a client posts: empty, "fix the bug", "test w", "test  ".
Prompts ==
    { <<>>,
      <<"f", "i", "x", " ", "t", "h", "e", " ", "b", "u", "g">>,
      <<"t", "e", "s", "t", " ", "w">>,
      <<"t", "e", "s", "t", " ", " ">> }

\* Notebook names in requests: "o-r-1" and "nb" have a worktree directory,
\* "o-r-2" has none.
NotebookNames == { <<"o", "-", "r", "-", "1">>, <<"n", "b">>, <<"o", "-", "r", "-", "2">> }

\* Worktree directories on disk (os.Stat succeeds).
worktrees == { <<"o", "-", "r", "-", "1">>, <<"n", "b">> }

\* Values of r.Int63() the model draws.
ExecIDs == {"id1"}

\* Lines the agent process prints (without the newline): "a" and the empty line.
Lines == { <<"a">>, <<>> }

Streams == {"stdout", "stderr"}

\* The sub-Operations of a PromptExecution.
Ops == {"Claude", "BazelQuery", "BazelTest"}

\* Texts the summarizer (the llm command) answers with.
SummaryTexts == { <<"ok">>, <<"Bazel", "ok">> }

\* Combined outputs of the bazel query process: nothing, a blank line, one target.
QueryOutputs == { <<>>, <<"\n">>, <<"t", "\n">> }

\* Combined outputs of the bazel test process.
TestOutputs == { <<>>, <<"p", "\n">> }

\* Errors exec returns for a finished process.
ExecErrs == {"nil", "exit status"}

\* The clients whose poll requests the server handles concurrently.
Pollers == {"p1", "p2"}

\* The prompt parameter of a poll request: absent, or "test w".
PollForms == { <<>>, <<"t", "e", "s", "t", " ", "w">> }

\* ------------------------------------------------------------------- state

VARIABLES
    promptExecutions,      \* registry: execution ID -> PromptExecution
    lastRunStatus,         \* HTTP status of the last apiRunPromptHandler response
    taskPrompt,            \* executePromptTask's prompt argument
    taskNotebook,          \* executePromptTask's notebookName argument
    orchPC,                \* position of the executePromptTask goroutine
    wg,                    \* executePromptTask's WaitGroup counter
    llmPC,                 \* position of the runLLMCommand goroutine
    cmd,                   \* the agent's external process and its two pipes
    emitted,               \* every line the agent process has printed (history)
    combinedOutputBuilder, \* runLLMCommand's local strings.Builder
    reader,                \* the two stream-reader goroutines of runLLMCommand
    bazelPC,               \* position of the runBazelQueryAndTest goroutine
    bazelLocal,            \* runBazelQueryAndTest's locals queryErr and targets
    testInvoked,           \* whether the bazel test process was started (history)
    pending,               \* per Operation: the writes of an open write-lock section
    poll,                  \* the apiSummarizeTaskHandler calls in flight
    crashed,               \* the process died of an unrecovered panic
    pollTask,              \* the last apiPollTaskHandler response
    tasks,                 \* single-agent version: registry task ID -> Task
    taskPC,                \* single-agent version: position of executePromptTask
    taskReader,            \* single-agent version: the two stream-reader goroutines
    taskPoll,              \* single-agent version: the apiSummarizeTaskHandler call in flight
    taskSeen,              \* the last two apiPollTaskHandler responses (history)
    mirror,                \* the clone directory of the repository on disk
    sync,                  \* repoHandler's manageRepo call in flight and the last two returns
    repoOperations,        \* repo-operation version: registry operation ID -> RepoOperation
    repoStart,             \* the last apiStartRepoOperationHandler response and its request's context
    repoPC,                \* position of the manageRepo goroutine
    repoDeadline,          \* whether the 120 s of manageRepo's own context are over
    repoCmd,               \* the git process, its two pipes and what ended it
    repoReader,            \* the two stream-reader goroutines of manageRepo
    outputBuilder,         \* manageRepo's local strings.Builder
    repoLock,              \* op.mu is write-locked across steps (the final section)
    repoPoll,              \* the last apiPollRepoOperationHandler response
    issued,                \* the execution IDs apiRunPromptHandler has answered with, in order
    owner,                 \* registry of all executions: ID -> which accepted request's execution
    found,                 \* the last registry lookup of a poll handler: the ID and what it led to
    notebook,              \* the createNotebookHandler call the model follows
    worktree,              \* the worktree directory of the notebook being created
    seen                   \* what the existence checks made since that call began have found

execVars == <<promptExecutions, lastRunStatus, taskPrompt, taskNotebook, orchPC, wg>>
llmVars == <<llmPC, cmd, emitted, combinedOutputBuilder, reader>>
bazelVars == <<bazelPC, bazelLocal, testInvoked>>
taskVars == <<tasks, taskPC, taskReader, taskPoll, taskSeen>>
opVars ==
    <<repoOperations, repoStart, repoPC, repoDeadline, repoCmd, repoReader, outputBuilder,
      repoLock, repoPoll>>
repoVars == <<mirror, sync, opVars>>
idVars == <<issued, owner, found>>
nbVars == <<notebook, worktree, seen>>
coreVars == <<execVars, llmVars, bazelVars, pending, poll, crashed, pollTask, taskVars>>
vars == <<execVars, llmVars, bazelVars, pending, poll, crashed, pollTask, taskVars, repoVars, idVars, nbVars>>

\* LLMResponse as apiRunPromptHandler initializes it.
NewLLMResponse ==
    [ Output |-> <<>>, Status |-> "running", Done |-> FALSE, Err |-> "nil",
      Summary |-> <<>>, HasSummary |-> FALSE ]

NewPromptExecution ==
    [ Claude |-> NewLLMResponse, BazelQuery |-> NewLLMResponse, BazelTest |-> NewLLMResponse ]

NoPending == [ open |-> FALSE ]

NoCmd == [ state |-> "none", exit |-> 0, stdout |-> <<>>, stderr |-> <<>> ]

IdleReader == [ pc |-> "idle", tmp |-> <<>> ]

Registered == DOMAIN promptExecutions # {}

\* The tracked execution's ID and record.
TheID == CHOOSE id \in DOMAIN promptExecutions : TRUE
PE == promptExecutions[TheID]

\* The write lock of an Operation is held across steps only by a finalizer.
LockFree(o) == ~pending[o].open

\* Triggered with a slip: every prompt launches the build goroutine.
TriggeredAlways(prompt) == TRUE

\* Triggered with a slip: the remainder after the prefix is not looked at.
TriggeredByPrefixOnly(prompt) == HasPrefix(prompt, TestPrefix)

\* Whether executePromptTask's prompt triggers the build sub-Operations.
Triggered(prompt) ==
    /\ HasPrefix(prompt, TestPrefix)
    /\ TrimSpace(TrimPrefix(prompt, TestPrefix)) # <<>>

\* The fields an LLMResponse has after the reset at the top of a runner.
ResetLLMResponse(r) ==
    [ r EXCEPT !.Status = "running", !.Output = <<>>, !.Err = "nil", !.Done = FALSE,
               !.HasSummary = FALSE, !.Summary = <<>> ]

SetOp(o, r) == [ promptExecutions EXCEPT ![TheID][o] = r ]


\* --------------------------------------------------- apiRunPromptHandler

\* RunPromptStatus with a slip: the prompt is not looked at.
RunPromptStatusWithoutPrompt(method, pathOK, prompt, notebookName) ==
    IF method # "POST" THEN 405
    ELSE IF ~pathOK THEN 400
    ELSE IF notebookName \notin worktrees THEN 404
    ELSE 200

\* RunPromptStatus with a slip: the worktree directory is not looked for.
RunPromptStatusWithoutStat(method, pathOK, prompt, notebookName) ==
    IF method # "POST" THEN 405
    ELSE IF ~pathOK THEN 400
    ELSE IF prompt = <<>> THEN 400
    ELSE 200

\* The HTTP status apiRunPromptHandler answers with: its checks in order.
RunPromptStatus(method, pathOK, prompt, notebookName) ==
    IF method # "POST" THEN 405
    ELSE IF ~pathOK THEN 400
    ELSE IF prompt = <<>> THEN 400
    ELSE IF notebookName \notin worktrees THEN 404
    ELSE 200

\* POST /api/run-prompt/{owner}/{repo}/{notebook}.  The model follows the
\* requests up to the first one that is accepted.
apiRunPromptHandler(method, pathOK, prompt, notebookName) ==
    /\ ~crashed
    /\ ~Registered
    /\ lastRunStatus' = RunPromptStatus(method, pathOK, prompt, notebookName)
    /\ IF RunPromptStatus(method, pathOK, prompt, notebookName) # 200 THEN
           UNCHANGED <<promptExecutions, taskPrompt, taskNotebook, orchPC>>
       ELSE \E id \in ExecIDs :
           /\ promptExecutions' = (id :> NewPromptExecution)
           /\ taskPrompt' = prompt
           /\ taskNotebook' = notebookName
           /\ orchPC' = "start"
    /\ UNCHANGED <<wg, llmVars, bazelVars, pending, poll, crashed>>
    /\ UNCHANGED <<taskVars, pollTask, repoVars, idVars, nbVars>>

\* ----------------------------------------------------- executePromptTask

\* Launch the agent goroutine and, for a triggered prompt, the build goroutine.
executePromptTaskLaunch ==
    /\ ~crashed
    /\ orchPC = "start"
    /\ orchPC' = "wait"
    /\ llmPC' = "reset"
    /\ IF Triggered(taskPrompt)
       THEN /\ wg' = 1 + 2
            /\ bazelPC' = "reset"
       ELSE /\ wg' = 1
            /\ bazelPC' = bazelPC
    /\ UNCHANGED <<promptExecutions, lastRunStatus, taskPrompt, taskNotebook,
                   cmd, emitted, combinedOutputBuilder, reader,
                   bazelLocal, testInvoked, pending, poll, crashed>>
    /\ UNCHANGED <<taskVars, pollTask, repoVars, idVars, nbVars>>

\* wg.Wait() returns.
executePromptTaskJoin ==
    /\ ~crashed
    /\ orchPC = "wait"
    /\ wg = 0
    /\ orchPC' = "returned"
    /\ UNCHANGED <<promptExecutions, lastRunStatus, taskPrompt, taskNotebook, wg,
                   llmVars, bazelVars, pending, poll, crashed>>
    /\ UNCHANGED <<taskVars, pollTask, repoVars, idVars, nbVars>>

\* ---------------------------------------------------------- runLLMCommand

\* The reset under the lock at the top of runLLMCommand.
runLLMCommandReset ==
    /\ ~crashed
    /\ llmPC = "reset"
    /\ LockFree("Claude")
    /\ promptExecutions' = SetOp("Claude", ResetLLMResponse(PE.Claude))
    /\ llmPC' = "spawn"
    /\ UNCHANGED <<lastRunStatus, taskPrompt, taskNotebook, orchPC, wg,
                   cmd, emitted, combinedOutputBuilder, reader,
                   bazelVars, pending, poll, crashed>>
    /\ UNCHANGED <<taskVars, pollTask, repoVars, idVars, nbVars>>

\* The error return of runLLMCommand for an unknown name or a spawn failure.
LLMSpawnError(r, err) == [ r EXCEPT !.Err = err, !.Status = "error", !.Done = TRUE ]

\* The switch on llmName, the two pipes and cmd.Start().
runLLMCommandSpawn(llmName, outcome) ==
    /\ ~crashed
    /\ llmPC = "spawn"
    /\ LockFree("Claude")
    /\ IF llmName \notin {"gemini", "claude", "codex"} THEN
           /\ promptExecutions' = SetOp("Claude", LLMSpawnError(PE.Claude, "unknown LLM"))
           /\ llmPC' = "returned"
           /\ wg' = wg - 1
           /\ UNCHANGED <<cmd, reader>>
       ELSE IF outcome # "started" THEN
           /\ promptExecutions' = SetOp("Claude", LLMSpawnError(PE.Claude, outcome))
           /\ llmPC' = "returned"
           /\ wg' = wg - 1
           /\ UNCHANGED <<cmd, reader>>
       ELSE
           /\ cmd' = [ NoCmd EXCEPT !.state = "running" ]
           /\ reader' = [ s \in Streams |-> [ pc |-> "scan", tmp |-> <<>> ] ]
           /\ llmPC' = "reading"
           /\ UNCHANGED <<promptExecutions, wg>>
    /\ UNCHANGED <<lastRunStatus, taskPrompt, taskNotebook, orchPC,
                   emitted, combinedOutputBuilder,
                   bazelVars, pending, poll, crashed>>
    /\ UNCHANGED <<taskVars, pollTask, repoVars, idVars, nbVars>>

\* The agent process prints one line on one of its streams.
procEmit(s, line) ==
    /\ ~crashed
    /\ cmd.state = "running"
    /\ emitted.lines < MaxLines
    /\ cmd' = [ cmd EXCEPT ![s] = Append(@, line) ]
    /\ emitted' = [ lines |-> emitted.lines + 1, chars |-> emitted.chars + Len(line) ]
    /\ UNCHANGED <<execVars, llmPC, combinedOutputBuilder, reader,
                   bazelVars, pending, poll, crashed>>
    /\ UNCHANGED <<taskVars, pollTask, repoVars, idVars, nbVars>>

\* The agent process exits and closes its ends of the pipes.
procExit(code) ==
    /\ ~crashed
    /\ cmd.state = "running"
    /\ cmd' = [ cmd EXCEPT !.state = "exited", !.exit = code ]
    /\ UNCHANGED <<execVars, llmPC, emitted, combinedOutputBuilder, reader,
                   bazelVars, pending, poll, crashed>>
    /\ UNCHANGED <<taskVars, pollTask, repoVars, idVars, nbVars>>

\* What a reader's WriteString(line + "\n") will store, computed from the
\* builder as the reader loaded it.
BuilderAppend(b, line) == b \o line \o <<"\n">>

\* scanner.Scan() returns a line; WriteString loads the builder.  The builder
\* is shared by the two readers and written with no lock held.
readerScan(s) ==
    /\ ~crashed
    /\ llmPC = "reading"
    /\ reader[s].pc = "scan"
    /\ cmd[s] # <<>>
    /\ cmd' = [ cmd EXCEPT ![s] = Tail(@) ]
    /\ reader' = [ reader EXCEPT ![s] =
                     [ pc |-> "store", tmp |-> BuilderAppend(combinedOutputBuilder, Head(cmd[s])) ] ]
    /\ UNCHANGED <<execVars, llmPC, emitted, combinedOutputBuilder,
                   bazelVars, pending, poll, crashed>>
    /\ UNCHANGED <<taskVars, pollTask, repoVars, idVars, nbVars>>

\* WriteString stores the grown buffer back into the builder.
readerStore(s) ==
    /\ ~crashed
    /\ llmPC = "reading"
    /\ reader[s].pc = "store"
    /\ combinedOutputBuilder' = reader[s].tmp
    /\ reader' = [ reader EXCEPT ![s] = [ pc |-> "scan", tmp |-> <<>> ] ]
    /\ UNCHANGED <<execVars, llmPC, cmd, emitted,
                   bazelVars, pending, poll, crashed>>
    /\ UNCHANGED <<taskVars, pollTask, repoVars, idVars, nbVars>>

\* scanner.Scan() returns false at end of file; the reader's wg.Done().
readerEOF(s) ==
    /\ ~crashed
    /\ llmPC = "reading"
    /\ reader[s].pc = "scan"
    /\ cmd[s] = <<>>
    /\ cmd.state = "exited"
    /\ reader' = [ reader EXCEPT ![s] = [ pc |-> "done", tmp |-> <<>> ] ]
    /\ UNCHANGED <<execVars, llmPC, cmd, emitted, combinedOutputBuilder,
                   bazelVars, pending, poll, crashed>>
    /\ UNCHANGED <<taskVars, pollTask, repoVars, idVars, nbVars>>

\* Both readers have returned (the inner wg.Wait()).
ReadersJoined == \A s \in Streams : reader[s].pc = "done"

\* LLMFinal with a slip: the output of a failed process is dropped.
LLMFinalDropsOutput(r, builder, exit) ==
    [ r EXCEPT !.Output = IF exit # 0 THEN <<>> ELSE TrimSpace(builder),
               !.Done = TRUE,
               !.Err = IF exit # 0 THEN "exit status" ELSE @,
               !.Status = IF exit # 0 THEN "error" ELSE "success" ]

\* The fields runLLMCommand writes once the process has exited.
LLMFinal(r, builder, exit) ==
    [ r EXCEPT !.Output = TrimSpace(builder),
               !.Done = TRUE,
               !.Err = IF exit # 0 THEN "exit status" ELSE @,
               !.Status = IF exit # 0 THEN "error" ELSE "success" ]

\* wg.Wait(), cmd.Wait() and llmResponse.mu.Lock(): the final writes begin.
runLLMCommandFinalize ==
    /\ ~crashed
    /\ llmPC = "reading"
    /\ ReadersJoined
    /\ LockFree("Claude")
    /\ pending' = [ pending EXCEPT !["Claude"] =
                      [ open |-> TRUE,
                        new |-> LLMFinal(PE.Claude, combinedOutputBuilder, cmd.exit) ] ]
    /\ llmPC' = "finalizing"
    /\ UNCHANGED <<execVars, cmd, emitted, combinedOutputBuilder, reader,
                   bazelVars, poll, crashed>>
    /\ UNCHANGED <<taskVars, pollTask, repoVars, idVars, nbVars>>

\* The deferred llmResponse.mu.Unlock() and the goroutine's wg.Done().
runLLMCommandReturn ==
    /\ ~crashed
    /\ llmPC = "finalizing"
    /\ promptExecutions' = SetOp("Claude", pending["Claude"].new)
    /\ pending' = [ pending EXCEPT !["Claude"] = NoPending ]
    /\ llmPC' = "returned"
    /\ wg' = wg - 1
    /\ UNCHANGED <<lastRunStatus, taskPrompt, taskNotebook, orchPC,
                   cmd, emitted, combinedOutputBuilder, reader,
                   bazelVars, poll, crashed>>
    /\ UNCHANGED <<taskVars, pollTask, repoVars, idVars, nbVars>>


\* --------------------------------------------------- runBazelQueryAndTest

\* The fields runBazelQueryAndTest writes when the query process has ended.
QueryFinal(r, out, err) ==
    [ r EXCEPT !.Output = TrimSpace(out),
               !.Done = TRUE,
               !.Err = IF err # "nil" THEN err ELSE @,
               !.Status = IF err # "nil" THEN "error" ELSE "success" ]

\* The fields written when the query failed or printed nothing.
TestSkippedQueryFailed(r) ==
    [ r EXCEPT !.Status = "success",
               !.Output = <<"No Bazel test targets found or query failed.">>,
               !.Done = TRUE ]

\* The fields written when strings.Fields finds no target.
TestSkippedNoTargets(r) ==
    [ r EXCEPT !.Status = "success",
               !.Output = <<"Bazel query found no test targets.">>,
               !.Done = TRUE ]

\* The fields written when the test process has ended.
TestFinal(r, out, err) ==
    [ r EXCEPT !.Output = TrimSpace(out),
               !.Done = TRUE,
               !.Err = IF err # "nil" THEN err ELSE @,
               !.Status = IF err # "nil" THEN "error" ELSE "success" ]

\* The two resets, parts[0] and parts[1] of the notebook name, and the start
\* of the query process.  parts[1] of a name without '-' panics, and nothing
\* recovers a panic of this goroutine.
runBazelStart ==
    /\ ~crashed
    /\ bazelPC = "reset"
    /\ LockFree("BazelQuery") /\ LockFree("BazelTest")
    /\ promptExecutions' =
         [ promptExecutions EXCEPT
             ![TheID]["BazelQuery"] = ResetLLMResponse(@),
             ![TheID]["BazelTest"] = ResetLLMResponse(@) ]
    /\ IF Len(SplitDash(taskNotebook)) < 2
       THEN /\ crashed' = TRUE
            /\ bazelPC' = "panicked"
       ELSE /\ crashed' = crashed
            /\ bazelPC' = "query"
    /\ UNCHANGED <<lastRunStatus, taskPrompt, taskNotebook, orchPC, wg,
                   llmVars, bazelLocal, testInvoked, pending, poll>>
    /\ UNCHANGED <<taskVars, pollTask, repoVars, idVars, nbVars>>

\* queryCmd.CombinedOutput() returns and the query's fields are written.
runBazelQueryDone(out, err) ==
    /\ ~crashed
    /\ bazelPC = "query"
    /\ LockFree("BazelQuery")
    /\ promptExecutions' = SetOp("BazelQuery", QueryFinal(PE.BazelQuery, out, err))
    /\ bazelLocal' = [ bazelLocal EXCEPT !.queryErr = err ]
    /\ bazelPC' = "gate"
    /\ UNCHANGED <<lastRunStatus, taskPrompt, taskNotebook, orchPC, wg,
                   llmVars, testInvoked, pending, poll, crashed>>
    /\ UNCHANGED <<taskVars, pollTask, repoVars, idVars, nbVars>>

\* Gate with a slip: the query's error is not looked at.
GateIgnoringQueryErr(queryErr, queryOutput) ==
    IF queryOutput = <<>> THEN "skip: query failed or empty"
    ELSE IF Len(Fields(queryOutput)) = 0 THEN "skip: no targets"
    ELSE "test"

\* Gate with a slip: a query that succeeded leads to the test whatever it printed.
GateWithoutTargets(queryErr, queryOutput) ==
    IF queryErr # "nil" THEN "skip: query failed or empty" ELSE "test"

\* Whether the test process is skipped, and with which fields.
Gate(queryErr, queryOutput) ==
    IF queryErr # "nil" \/ queryOutput = <<>> THEN "skip: query failed or empty"
    ELSE IF Len(Fields(queryOutput)) = 0 THEN "skip: no targets"
    ELSE "test"

\* The decision after the query: resolve the test Operation at once, or
\* start the bazel test process on the targets.
runBazelGate ==
    /\ ~crashed
    /\ bazelPC = "gate"
    /\ LockFree("BazelTest")
    /\ LET g == Gate(bazelLocal.queryErr, PE.BazelQuery.Output) IN
       IF g = "skip: query failed or empty" THEN
           /\ pending' = [ pending EXCEPT !["BazelTest"] =
                             [ open |-> TRUE, new |-> TestSkippedQueryFailed(PE.BazelTest) ] ]
           /\ bazelPC' = "testFinalizing"
           /\ UNCHANGED <<bazelLocal, testInvoked>>
       ELSE IF g = "skip: no targets" THEN
           /\ pending' = [ pending EXCEPT !["BazelTest"] =
                             [ open |-> TRUE, new |-> TestSkippedNoTargets(PE.BazelTest) ] ]
           /\ bazelPC' = "testFinalizing"
           /\ UNCHANGED <<bazelLocal, testInvoked>>
       ELSE
           /\ bazelLocal' = [ bazelLocal EXCEPT !.targets = Fields(PE.BazelQuery.Output) ]
           /\ testInvoked' = TRUE
           /\ bazelPC' = "test"
           /\ UNCHANGED pending
    /\ UNCHANGED <<execVars, llmVars, poll, crashed>>
    /\ UNCHANGED <<taskVars, pollTask, repoVars, idVars, nbVars>>

\* testCmd.CombinedOutput() returns and testResp.mu.Lock(): the final writes begin.
runBazelTestDone(out, err) ==
    /\ ~crashed
    /\ bazelPC = "test"
    /\ LockFree("BazelTest")
    /\ pending' = [ pending EXCEPT !["BazelTest"] =
                      [ open |-> TRUE, new |-> TestFinal(PE.BazelTest, out, err) ] ]
    /\ bazelPC' = "testFinalizing"
    /\ UNCHANGED <<execVars, llmVars, bazelLocal, testInvoked, poll, crashed>>
    /\ UNCHANGED <<taskVars, pollTask, repoVars, idVars, nbVars>>

\* testResp.mu.Unlock(), the return, and the goroutine's single wg.Done().
runBazelReturn ==
    /\ ~crashed
    /\ bazelPC = "testFinalizing"
    /\ promptExecutions' = SetOp("BazelTest", pending["BazelTest"].new)
    /\ pending' = [ pending EXCEPT !["BazelTest"] = NoPending ]
    /\ bazelPC' = "returned"
    /\ wg' = wg - 1
    /\ UNCHANGED <<lastRunStatus, taskPrompt, taskNotebook, orchPC,
                   llmVars, bazelLocal, testInvoked, poll, crashed>>
    /\ UNCHANGED <<taskVars, pollTask, repoVars, idVars, nbVars>>


\* ------------------------------------------------- apiSummarizeTaskHandler

NoEntry == [ status |-> "none", summary |-> <<>>, output |-> <<>>, done |-> FALSE,
             error |-> "nil", framing |-> "none" ]

IdlePoll ==
    [ pc |-> "idle", code |-> 0, id |-> "", form |-> <<>>, op |-> "Claude", snap |-> NewLLMResponse,
      resp |-> [ o \in Ops |-> NoEntry ], overall |-> "none", rule |-> "none" ]

\* The order of the three buildLLMResponseData calls.
NextOp(o) == IF o = "Claude" THEN "BazelQuery" ELSE "BazelTest"

\* The map buildLLMResponseData returns, and the summarization function it used.
ResponseData(snap, summary, framing) ==
    [ status |-> snap.Status, summary |-> summary, output |-> snap.Output,
      done |-> snap.Done, error |-> snap.Err, framing |-> framing ]

\* buildLLMResponseData returns and the handler moves on.
Advance(pr, data) ==
    [ pr EXCEPT !.resp[pr.op] = data,
                !.pc = IF pr.op = "BazelTest" THEN "overall" ELSE "snap",
                !.op = NextOp(pr.op),
                !.snap = NewLLMResponse ]

\* NotFound with a slip: an unknown ID is answered as a running execution.
PlaceholderRunning(id) ==
    [ IdlePoll EXCEPT !.pc = "respond", !.code = 200, !.id = id, !.overall = "running" ]

\* The answer of apiSummarizeTaskHandler to an ID the registry does not hold.
NotFound(id) == [ IdlePoll EXCEPT !.pc = "respond", !.code = 404, !.id = id ]

\* The method and path checks and the registry lookup under promptExecutionsMu.
summarizeLookup(p, id, form) ==
    /\ ~crashed
    /\ poll[p].pc = "idle"
    /\ IF id \notin DOMAIN promptExecutions
       THEN poll' = [ poll EXCEPT ![p] = NotFound(id) ]
       ELSE poll' = [ poll EXCEPT ![p] =
                       [ IdlePoll EXCEPT !.pc = "snap", !.id = id, !.form = form ] ]
    /\ UNCHANGED <<execVars, llmVars, bazelVars, pending, crashed>>
    /\ UNCHANGED <<taskVars, pollTask, repoVars, idVars, nbVars>>

\* The choice of the summarization function from the text of llmResp.Summary.
SummaryFunc(summary) ==
    IF Contains(summary, "Bazel") \/ Contains(summary, "targets")
    THEN "runBazelSummary" ELSE "runLLMSummary"

\* Which branch of buildLLMResponseData a snapshot takes.
SummaryBranch(hasSummary, done, output) ==
    IF hasSummary THEN "cached"
    ELSE IF done THEN (IF output # <<>> THEN "final" ELSE "finalEmpty")
    ELSE (IF output # <<>> THEN "running" ELSE "runningEmpty")

\* buildLLMResponseData: the six fields copied under the read lock.  A
\* snapshot that needs no summarizer call returns at once: the cached
\* summary, or a fixed text for an empty output.
buildSnapshot(p) ==
    /\ ~crashed
    /\ poll[p].pc = "snap"
    /\ LockFree(poll[p].op)
    /\ LET pr == [ poll[p] EXCEPT !.snap = PE[poll[p].op] ]
           b == SummaryBranch(pr.snap.HasSummary, pr.snap.Done, pr.snap.Output)
       IN
       IF b = "cached" THEN
           poll' = [ poll EXCEPT ![p] =
                       Advance(pr, ResponseData(pr.snap, pr.snap.Summary, "none")) ]
       ELSE IF b = "finalEmpty" THEN
           poll' = [ poll EXCEPT ![p] =
                       Advance(pr, ResponseData(pr.snap,
                                 <<"No output available for final summary.">>, "none")) ]
       ELSE IF b = "runningEmpty" THEN
           poll' = [ poll EXCEPT ![p] =
                       Advance(pr, ResponseData(pr.snap, <<"No output available yet.">>, "none")) ]
       ELSE
           poll' = [ poll EXCEPT ![p] = [ pr EXCEPT !.pc = "summarize" ] ]
    /\ UNCHANGED <<execVars, llmVars, bazelVars, pending, crashed>>
    /\ UNCHANGED <<taskVars, pollTask, repoVars, idVars, nbVars>>

\* runSummary: nothing to summarize, or what the llm command answered.
runSummary(text, answer) ==
    IF text = <<>> THEN [ s |-> <<>>, err |-> "nil" ] ELSE answer

\* What the llm command can answer: a text, or a failure (non-zero exit, or
\* killed when the 15 s context expires).
SummaryAnswers(texts) ==
    { [ s |-> t, err |-> "nil" ] : t \in texts } \cup
    { [ s |-> <<>>, err |-> "llm summarization failed" ] }

\* CachesSummary with a slip: done is not looked at.
CachesSummaryWhileRunning(done, res) == res.err = "nil"

\* CachesSummary with a slip: whatever the summarizer call gave is stored.
CachesSummaryAlways(done, res) == TRUE

\* Whether the summary just obtained is stored: only for a snapshot that was
\* done, and only if the summarizer did not fail.
CachesSummary(done, res) == done /\ res.err = "nil"

\* CacheSummary with a slip: the summary is stored as the output too.
CacheSummaryIntoOutput(r, summary) ==
    [ r EXCEPT !.Summary = summary, !.HasSummary = TRUE, !.Output = summary ]

\* CacheSummary with a slip: storing the summary also marks the Operation successful.
CacheSummaryMarksSuccess(r, summary) ==
    [ r EXCEPT !.Summary = summary, !.HasSummary = TRUE, !.Status = "success" ]

\* The fields buildLLMResponseData writes to cache a summary.
CacheSummary(r, summary) == [ r EXCEPT !.Summary = summary, !.HasSummary = TRUE ]

\* SummaryAfterCall with a slip: the summarizer's error becomes the summary.
SummaryErrorAsSummary(done, res) == IF res.err # "nil" THEN <<res.err>> ELSE res.s

\* The summary buildLLMResponseData returns after the summarizer call.
SummaryAfterCall(done, res) ==
    IF res.err # "nil"
    THEN (IF done THEN <<"Could not generate final summary.">>
                       ELSE <<"Could not generate summary.">>)
    ELSE res.s

\* buildLLMResponseData after the read lock is released: llmResp.Summary is
\* read again, with no lock, to choose the summarization function; the
\* summarizer runs on the snapshot's output; a summary of a done snapshot is
\* stored under the write lock.
buildSummarize(p, answer) ==
    /\ ~crashed
    /\ poll[p].pc = "summarize"
    /\ LET pr == poll[p]
           res == runSummary(pr.snap.Output, answer)
       IN
       /\ IF CachesSummary(pr.snap.Done, res)
          THEN /\ LockFree(pr.op)
               /\ promptExecutions' =
                    SetOp(pr.op, CacheSummary(PE[pr.op], res.s))
          ELSE UNCHANGED promptExecutions
       /\ poll' = [ poll EXCEPT ![p] =
                      Advance(pr, ResponseData(pr.snap, SummaryAfterCall(pr.snap.Done, res),
                                               SummaryFunc(PE[pr.op].Summary))) ]
    /\ UNCHANGED <<lastRunStatus, taskPrompt, taskNotebook, orchPC, wg,
                   llmVars, bazelVars, pending, crashed>>
    /\ UNCHANGED <<taskVars, pollTask, repoVars, idVars, nbVars>>

\* The values a read of field f of Operation o made with no lock can return:
\* the stored value, or the one a writer inside its lock section is storing.
RacyRead(o, f) ==
    {PE[o][f]} \cup (IF pending[o].open THEN {pending[o].new[f]} ELSE {})

\* overallStatus from the Done and Status read.
Overall(done, status) ==
    IF done THEN (IF status = "success" THEN "success" ELSE "error") ELSE "running"

\* The Operation whose fields decide overallStatus.
PrimaryOp(form) == IF HasPrefix(form, TestPrefix) THEN "BazelTest" ELSE "Claude"

\* The sub-Operations the execution's prompt launched.
Relevant == IF Triggered(taskPrompt) THEN Ops ELSE {"Claude"}

\* The aggregate rule over the relevant sub-Operations, on the stored fields.
AggregateRule ==
    IF \A o \in Relevant : PE[o].Done /\ PE[o].Status = "success" THEN "success"
    ELSE IF \E o \in Relevant : PE[o].Done /\ PE[o].Status = "error" THEN "error"
    ELSE "running"

\* overallStatus: Done and Status of the primary Operation, read with no lock.
summarizeOverall(p) ==
    /\ ~crashed
    /\ poll[p].pc = "overall"
    /\ \E d \in RacyRead(PrimaryOp(poll[p].form), "Done"),
          st \in RacyRead(PrimaryOp(poll[p].form), "Status") :
          poll' = [ poll EXCEPT ![p].overall = Overall(d, st),
                                ![p].rule = AggregateRule,
                                ![p].code = 200,
                                ![p].pc = "respond" ]
    /\ UNCHANGED <<execVars, llmVars, bazelVars, pending, crashed>>
    /\ UNCHANGED <<taskVars, pollTask, repoVars, idVars, nbVars>>

\* The response is written and the handler returns.
summarizeRespond(p) ==
    /\ ~crashed
    /\ poll[p].pc = "respond"
    /\ poll' = [ poll EXCEPT ![p] = IdlePoll ]
    /\ UNCHANGED <<execVars, llmVars, bazelVars, pending, crashed>>
    /\ UNCHANGED <<taskVars, pollTask, repoVars, idVars, nbVars>>


\* ------------------------------------------------------ apiPollTaskHandler

NoPollTask ==
    [ code |-> 0, id |-> "", status |-> "none", output |-> <<>>, done |-> FALSE, error |-> "nil" ]

\* GET /api/poll-task/{id}: the registry lookup, then the agent's status,
\* output, done and error copied under its read lock.
apiPollTaskHandler(id) ==
    /\ ~crashed
    /\ IF id \notin DOMAIN promptExecutions
       THEN pollTask' = [ NoPollTask EXCEPT !.code = 404, !.id = id ]
       ELSE /\ LockFree("Claude")
            /\ pollTask' = [ code |-> 200, id |-> id,
                             status |-> PE.Claude.Status, output |-> PE.Claude.Output,
                             done |-> PE.Claude.Done, error |-> PE.Claude.Err ]
    /\ UNCHANGED <<execVars, llmVars, bazelVars, pending, poll, crashed, taskVars, repoVars, idVars, nbVars>>

\* ------------------------------------- single-agent version: Task and tasks

\* Everything the single-agent version leaves alone.
multiVars ==
    <<execVars, llmPC, combinedOutputBuilder, reader, bazelVars, pending, poll, crashed, pollTask,
      repoVars, idVars, nbVars>>

\* Task as apiRunPromptHandler creates it.
NewTask ==
    [ output |-> <<>>, status |-> "running", done |-> FALSE, err |-> "nil",
      finalSummary |-> <<>>, hasFinalSummary |-> FALSE ]

TaskRegistered == DOMAIN tasks # {}

\* The tracked task's ID and record.
TheTaskID == CHOOSE id \in DOMAIN tasks : TRUE
Task == tasks[TheTaskID]

SetTask(t) == [ tasks EXCEPT ![TheTaskID] = t ]

NoObservation == [ status |-> "none", output |-> <<>>, done |-> FALSE ]

NoLocals ==
    [ currentStatus |-> "none", currentOutput |-> <<>>, taskErr |-> "nil", taskDone |-> FALSE,
      cachedFinalSummary |-> <<>>, cachedHasFinalSummary |-> FALSE ]

IdleTaskPoll ==
    [ pc |-> "idle", code |-> 0, snap |-> NoLocals, summary |-> <<>>, called |-> FALSE ]

\* POST /api/run-prompt/ of the single-agent version, followed up to the
\* first request that is accepted.
apiRunPromptHandler_Task(method, pathOK, prompt, notebookName) ==
    /\ ~TaskRegistered
    /\ IF method # "POST" THEN
           /\ lastRunStatus' = 405
           /\ UNCHANGED <<tasks, taskPC>>
       ELSE IF ~pathOK THEN
           /\ lastRunStatus' = 400
           /\ UNCHANGED <<tasks, taskPC>>
       ELSE IF prompt = <<>> THEN
           /\ lastRunStatus' = 400
           /\ UNCHANGED <<tasks, taskPC>>
       ELSE IF notebookName \notin worktrees THEN
           /\ lastRunStatus' = 404
           /\ UNCHANGED <<tasks, taskPC>>
       ELSE \E id \in ExecIDs :
           /\ tasks' = (id :> NewTask)
           /\ taskPC' = "start"
           /\ lastRunStatus' = 200
    /\ UNCHANGED <<promptExecutions, taskPrompt, taskNotebook, orchPC, wg,
                   llmVars, bazelVars, pending, poll, crashed, pollTask,
                   taskReader, taskPoll, taskSeen, repoVars, idVars, nbVars>>

\* The error return of executePromptTask for a spawn failure.
TaskSpawnError(t, err) == [ t EXCEPT !.err = err, !.status = "error", !.done = TRUE ]

\* executePromptTask up to the launch of the two readers: status is set to
\* running, then the two pipes and cmd.Start().
executePromptTask_Task(outcome) ==
    /\ taskPC = "start"
    /\ IF outcome # "started" THEN
           /\ tasks' = SetTask(TaskSpawnError([ Task EXCEPT !.status = "running" ], outcome))
           /\ taskPC' = "returned"
           /\ UNCHANGED <<cmd, taskReader>>
       ELSE
           /\ tasks' = SetTask([ Task EXCEPT !.status = "running" ])
           /\ cmd' = [ NoCmd EXCEPT !.state = "running" ]
           /\ taskReader' = [ s \in Streams |-> "scan" ]
           /\ taskPC' = "reading"
    /\ UNCHANGED <<multiVars, emitted, taskPoll, taskSeen>>

\* TaskAppend with a slip: the line replaces the output.
TaskOverwrite(output, line) == line \o <<"\n">>

\* task.output += line + "\n"
TaskAppend(output, line) == output \o line \o <<"\n">>

\* scanner.Scan() returns a line and the reader appends it under task.mu.
readerScan_Task(s) ==
    /\ taskPC = "reading"
    /\ taskReader[s] = "scan"
    /\ cmd[s] # <<>>
    /\ cmd' = [ cmd EXCEPT ![s] = Tail(@) ]
    /\ tasks' = SetTask([ Task EXCEPT !.output = TaskAppend(@, Head(cmd[s])) ])
    /\ UNCHANGED <<multiVars, emitted, taskPC, taskReader, taskPoll, taskSeen>>

\* scanner.Scan() returns false at end of file; the reader's wg.Done().
readerEOF_Task(s) ==
    /\ taskPC = "reading"
    /\ taskReader[s] = "scan"
    /\ cmd[s] = <<>>
    /\ cmd.state = "exited"
    /\ taskReader' = [ taskReader EXCEPT ![s] = "done" ]
    /\ UNCHANGED <<multiVars, cmd, emitted, tasks, taskPC, taskPoll, taskSeen>>

\* The fields executePromptTask writes once the process has exited.
TaskFinal(t, exit) ==
    [ t EXCEPT !.output = TrimSpace(@),
               !.done = TRUE,
               !.err = IF exit # 0 THEN "exit status" ELSE @,
               !.status = IF exit # 0 THEN "error" ELSE "success" ]

\* wg.Wait(), cmd.Wait() and the final writes under task.mu.
executePromptTaskFinalize_Task ==
    /\ taskPC = "reading"
    /\ \A s \in Streams : taskReader[s] = "done"
    /\ tasks' = SetTask(TaskFinal(Task, cmd.exit))
    /\ taskPC' = "returned"
    /\ UNCHANGED <<multiVars, cmd, emitted, taskReader, taskPoll, taskSeen>>

\* GET /api/poll-task/{id}: status, output and done copied under the read lock.
apiPollTaskHandler_Task(id) ==
    /\ IF id \notin DOMAIN tasks
       THEN taskSeen' = [ taskSeen EXCEPT !.code = 404 ]
       ELSE taskSeen' = [ code |-> 200,
                          prev |-> taskSeen.cur,
                          cur |-> [ status |-> Task.status, output |-> Task.output,
                                    done |-> Task.done ] ]
    /\ UNCHANGED <<multiVars, cmd, emitted, tasks, taskPC, taskReader, taskPoll>>

\* GET /api/summarize-task/{id}: the lookup and the six fields copied under
\* the read lock.  A snapshot that needs no summarizer call goes on with the
\* cached summary, or a fixed text for an empty output.
apiSummarizeTaskHandler_Task(id) ==
    /\ taskPoll.pc = "idle"
    /\ IF id \notin DOMAIN tasks THEN
           taskPoll' = [ IdleTaskPoll EXCEPT !.pc = "respond", !.code = 404 ]
       ELSE
           LET snap == [ currentStatus |-> Task.status, currentOutput |-> Task.output,
                         taskErr |-> Task.err, taskDone |-> Task.done,
                         cachedFinalSummary |-> Task.finalSummary,
                         cachedHasFinalSummary |-> Task.hasFinalSummary ]
               b == SummaryBranch(snap.cachedHasFinalSummary, snap.taskDone, snap.currentOutput)
               pr == [ IdleTaskPoll EXCEPT !.snap = snap, !.code = 200 ]
           IN
           IF b = "cached" THEN
               taskPoll' = [ pr EXCEPT !.pc = "respond", !.summary = snap.cachedFinalSummary ]
           ELSE IF b = "finalEmpty" THEN
               taskPoll' = [ pr EXCEPT !.pc = "respond",
                                       !.summary = <<"No output available for final summary.">> ]
           ELSE IF b = "runningEmpty" THEN
               taskPoll' = [ pr EXCEPT !.pc = "respond",
                                       !.summary = <<"No output available yet.">> ]
           ELSE
               taskPoll' = [ pr EXCEPT !.pc = "summarize" ]
    /\ UNCHANGED <<multiVars, cmd, emitted, tasks, taskPC, taskReader, taskSeen>>

\* The fields the handler writes to cache the final summary.
CacheFinalSummary(t, summary) == [ t EXCEPT !.finalSummary = summary, !.hasFinalSummary = TRUE ]

\* runGeminiSummary on the snapshot's output returns; the summary of a done
\* snapshot is stored under the write lock.
runGeminiSummary_Task(answer) ==
    /\ taskPoll.pc = "summarize"
    /\ LET res == runSummary(taskPoll.snap.currentOutput, answer) IN
       /\ IF CachesSummary(taskPoll.snap.taskDone, res)
          THEN tasks' = SetTask(CacheFinalSummary(Task, res.s))
          ELSE UNCHANGED tasks
       /\ taskPoll' = [ taskPoll EXCEPT !.pc = "respond",
                                        !.called = TRUE,
                                        !.summary = SummaryAfterCall(taskPoll.snap.taskDone, res) ]
    /\ UNCHANGED <<multiVars, cmd, emitted, taskPC, taskReader, taskSeen>>

\* The response is written and the handler returns.
summarizeRespond_Task ==
    /\ taskPoll.pc = "respond"
    /\ taskPoll' = IdleTaskPoll
    /\ UNCHANGED <<multiVars, cmd, emitted, tasks, taskPC, taskReader, taskSeen>>

\* ------------------------------------------------- manageRepo (repoHandler)

\* Calls of manageRepo the model follows.
MaxSyncs == 3

\* Commit hashes git rev-parse HEAD prints.
Revs == {"c1", "c2"}

\* The input repoHandler passes: "o/r", or "/" when the URL names no repository.
RepoInputs == {"o/r", "/"}

\* filepath.Join(workDir, "clone", owner, repo) for "o/r".
RepoDirPath == "clone/o/r"

\* The clone directory: absent, a directory that holds no repository, or a
\* repository whose HEAD is `head`.
NoMirror == [ dir |-> "absent", head |-> "" ]

\* One call of manageRepo: the directory state os.Stat found, the git
\* operation chosen, and the three values returned.
NoSync ==
    [ before |-> "none", operation |-> "none", repoDir |-> "", commitHash |-> "", err |-> "nil" ]

IdleSync == [ pc |-> "idle", n |-> 0, cur |-> NoSync, prev |-> NoSync ]

\* SyncOperation with a slip: the directory is not looked at.
SyncAlwaysClone(dir) == "git clone"

\* The git operation manageRepo chooses from what os.Stat reports.
SyncOperation(dir) == IF dir = "absent" THEN "git clone" ELSE "git pull"

\* manageRepo returns: the call in flight becomes the last return.
SyncReturn(sy, rec) == [ sy EXCEPT !.pc = "idle", !.cur = rec ]

\* parseGitHubInput, os.Stat and, for an absent directory, os.MkdirAll; then
\* the git command is started.
manageRepoStat(input, statErr, mkdirErr) ==
    /\ sync.pc = "idle"
    /\ sync.n < MaxSyncs
    /\ LET sy == [ sync EXCEPT !.n = @ + 1, !.prev = sync.cur,
                               !.cur = [ NoSync EXCEPT !.before = mirror.dir ] ]
       IN
       IF input # "o/r" THEN
           /\ sync' = SyncReturn(sy, [ sy.cur EXCEPT !.err = "invalid GitHub repo" ])
           /\ UNCHANGED mirror
       ELSE IF statErr THEN
           /\ sync' = SyncReturn(sy, [ sy.cur EXCEPT !.err = "stat" ])
           /\ UNCHANGED mirror
       ELSE IF SyncOperation(mirror.dir) = "git pull" THEN
           /\ sync' = [ sy EXCEPT !.pc = "git", !.cur.operation = "git pull" ]
           /\ UNCHANGED mirror
       ELSE IF mkdirErr THEN
           /\ sync' = SyncReturn(sy, [ sy.cur EXCEPT !.operation = "git clone",
                                                     !.err = "create repo directory" ])
           /\ UNCHANGED mirror
       ELSE
           /\ sync' = [ sy EXCEPT !.pc = "git", !.cur.operation = "git clone" ]
           /\ mirror' = [ mirror EXCEPT !.dir = "empty" ]
    /\ UNCHANGED <<execVars, llmVars, bazelVars, pending, poll, crashed, pollTask, taskVars, opVars, idVars, nbVars>>

\* What a git command that ended can have left on disk.  A clone that
\* succeeded made the directory a repository; one that failed left the
\* directory MkdirAll created (git removes only what it created itself) or,
\* with a git that cleans up the whole path, nothing.  A pull needs a
\* repository and moves its HEAD if it succeeds.
GitOutcomes(operation, m) ==
    IF operation = "git clone" THEN
        { [ err |-> "nil", mirror |-> [ dir |-> "repo", head |-> h ] ] : h \in Revs }
        \cup { [ err |-> "git clone failed", mirror |-> [ dir |-> d, head |-> "" ] ] :
                 d \in {"empty", "absent"} }
    ELSE IF m.dir = "repo" THEN
        { [ err |-> "nil", mirror |-> [ m EXCEPT !.head = h ] ] : h \in Revs }
        \cup { [ err |-> "git pull failed", mirror |-> m ] }
    ELSE
        { [ err |-> "git pull failed", mirror |-> m ] }

\* cmd.CombinedOutput() returns for the clone or the pull.
manageRepoGitDone(outcome) ==
    /\ sync.pc = "git"
    /\ outcome \in GitOutcomes(sync.cur.operation, mirror)
    /\ mirror' = outcome.mirror
    /\ IF outcome.err # "nil"
       THEN sync' = SyncReturn(sync, [ sync.cur EXCEPT !.err = outcome.err ])
       ELSE sync' = [ sync EXCEPT !.pc = "head" ]
    /\ UNCHANGED <<execVars, llmVars, bazelVars, pending, poll, crashed, pollTask, taskVars, opVars, idVars, nbVars>>

\* All outcomes of a git command on any directory state.
AllGitOutcomes ==
    UNION { GitOutcomes(o, [ dir |-> d, head |-> h ]) :
              o \in {"git clone", "git pull"}, d \in {"absent", "empty", "repo"},
              h \in Revs \cup {""} }

\* getHeadCommit: git rev-parse HEAD prints the HEAD of the repository, or
\* fails (the 60 s of the context are over).
getHeadCommit(failed) ==
    /\ sync.pc = "head"
    /\ IF failed
       THEN sync' = SyncReturn(sync, [ sync.cur EXCEPT !.repoDir = RepoDirPath,
                                                        !.err = "could not get HEAD commit" ])
       ELSE sync' = SyncReturn(sync, [ sync.cur EXCEPT !.repoDir = RepoDirPath,
                                                        !.commitHash = mirror.head ])
    /\ UNCHANGED mirror
    /\ UNCHANGED <<execVars, llmVars, bazelVars, pending, poll, crashed, pollTask, taskVars, opVars, idVars, nbVars>>

\* ------------------------------- repo-operation version: RepoOperation

\* Everything the repo-operation version leaves alone.
otherVars ==
    <<execVars, llmVars, bazelVars, pending, poll, crashed, pollTask, taskVars, sync, idVars, nbVars>>

\* Values of r.Int63() generateOperationID draws.
OperationIDs == {"op1"}

\* The repo parameter of a start request: absent, "o/r", or "x" (no owner).
RepoURLs == {"", "o/r", "x"}

\* Lines git prints on a stream: a progress line.
GitLines == { <<"g">> }

\* RepoOperation as apiStartRepoOperationHandler creates it.
NewRepoOperation ==
    [ Output |-> <<>>, Status |-> "running", Done |-> FALSE, Err |-> "nil",
      RepoDir |-> "", CommitHash |-> "", RepoName |-> "o/r" ]

NoRepoCmd ==
    [ state |-> "none", operation |-> "none", exit |-> 0, stdout |-> <<>>, stderr |-> <<>>,
      printed |-> 0, killedBy |-> "none" ]

NoRepoPoll ==
    [ code |-> 0, id |-> "", status |-> "none", output |-> <<>>, done |-> FALSE,
      repoDir |-> "", commitHash |-> "", error |-> "nil" ]

OpRegistered == DOMAIN repoOperations # {}

\* The tracked operation's ID and record.
TheOpID == CHOOSE id \in DOMAIN repoOperations : TRUE
op == repoOperations[TheOpID]

SetRepoOp(r) == [ repoOperations EXCEPT ![TheOpID] = r ]

\* op.mu can be taken.
RepoLockFree == ~repoLock

\* StartRepoStatus: the checks of apiStartRepoOperationHandler in order;
\* parseGitHubInput wants an owner and a repository.
StartRepoStatus(method, repoURL) ==
    IF method # "POST" THEN 405
    ELSE IF repoURL = "" THEN 400
    ELSE IF repoURL # "o/r" THEN 400
    ELSE 200

\* POST /api/start-repo-operation, followed up to the first request that is
\* accepted: the operation is registered and manageRepo is started with the
\* request's context.
apiStartRepoOperationHandler(method, repoURL) ==
    /\ ~OpRegistered
    /\ IF StartRepoStatus(method, repoURL) # 200 THEN
           /\ repoStart' = [ repoStart EXCEPT !.code = StartRepoStatus(method, repoURL) ]
           /\ UNCHANGED <<repoOperations, repoPC>>
       ELSE \E id \in OperationIDs :
           /\ repoOperations' = (id :> NewRepoOperation)
           /\ repoStart' = [ code |-> 200, ctx |-> "live" ]
           /\ repoPC' = "reset"
    /\ UNCHANGED <<mirror, repoDeadline, repoCmd, repoReader, outputBuilder, repoLock, repoPoll>>
    /\ UNCHANGED otherVars

\* The handler has returned (or the client has gone): net/http cancels the
\* request's context.
requestContextCanceled ==
    /\ repoStart.ctx = "live"
    /\ repoStart' = [ repoStart EXCEPT !.ctx = "canceled" ]
    /\ UNCHANGED <<mirror, repoOperations, repoPC, repoDeadline, repoCmd, repoReader,
                   outputBuilder, repoLock, repoPoll>>
    /\ UNCHANGED otherVars

\* The 120 s of context.WithTimeout pass while manageRepo is at work.
opContextDeadline ==
    /\ repoPC \in {"reading", "head"}
    /\ ~repoDeadline
    /\ repoDeadline' = TRUE
    /\ UNCHANGED <<mirror, repoOperations, repoStart, repoPC, repoCmd, repoReader,
                   outputBuilder, repoLock, repoPoll>>
    /\ UNCHANGED otherVars

\* opCtx is done: it is derived from the context manageRepo was given, the
\* request's, and has its own 120 s bound.
OpCtxDone == repoStart.ctx = "canceled" \/ repoDeadline

\* What ended opCtx.
OpCtxCause == IF repoStart.ctx = "canceled" THEN "request" ELSE "deadline"

\* The reset under op.mu at the top of manageRepo.
manageRepoReset_Op ==
    /\ repoPC = "reset"
    /\ RepoLockFree
    /\ repoOperations' = SetRepoOp([ op EXCEPT !.Status = "running", !.Output = <<>>,
                                               !.Err = "nil", !.Done = FALSE,
                                               !.CommitHash = "" ])
    /\ repoPC' = "stat"
    /\ UNCHANGED <<mirror, repoStart, repoDeadline, repoCmd, repoReader, outputBuilder,
                   repoLock, repoPoll>>
    /\ UNCHANGED otherVars

\* An error return of manageRepo before the command runs.
RepoOpError(r, err) == [ r EXCEPT !.Err = err, !.Status = "error", !.Done = TRUE ]

\* os.Stat, os.MkdirAll for an absent directory, the two pipes and
\* cmd.Start(), which fails at once if opCtx is already done.
manageRepoStart_Op(statErr, mkdirErr, outcome) ==
    /\ repoPC = "stat"
    /\ RepoLockFree
    /\ OpCtxDone => outcome \in {"stdout pipe", "stderr pipe", "context canceled"}
    /\ ~OpCtxDone => outcome # "context canceled"
    /\ IF statErr THEN
           /\ repoOperations' = SetRepoOp(RepoOpError(op, "stat"))
           /\ repoPC' = "returned"
           /\ UNCHANGED <<mirror, repoCmd, repoReader>>
       ELSE IF SyncOperation(mirror.dir) = "git clone" /\ mkdirErr THEN
           /\ repoOperations' = SetRepoOp(RepoOpError(op, "create repo directory"))
           /\ repoPC' = "returned"
           /\ UNCHANGED <<mirror, repoCmd, repoReader>>
       ELSE
           /\ mirror' = IF mirror.dir = "absent" THEN [ mirror EXCEPT !.dir = "empty" ] ELSE mirror
           /\ IF outcome # "started" THEN
                  /\ repoOperations' = SetRepoOp(RepoOpError(op, outcome))
                  /\ repoPC' = "returned"
                  /\ UNCHANGED <<repoCmd, repoReader>>
              ELSE
                  /\ repoCmd' = [ NoRepoCmd EXCEPT !.state = "running",
                                                   !.operation = SyncOperation(mirror.dir) ]
                  /\ repoReader' = [ s \in Streams |-> "scan" ]
                  /\ repoPC' = "reading"
                  /\ UNCHANGED repoOperations
    /\ UNCHANGED <<repoStart, repoDeadline, outputBuilder, repoLock, repoPoll>>
    /\ UNCHANGED otherVars

\* git prints a line on one of its streams.
gitEmit(s, line) ==
    /\ repoCmd.state = "running"
    /\ repoCmd.printed < MaxLines
    /\ repoCmd' = [ repoCmd EXCEPT ![s] = Append(@, line), !.printed = @ + 1 ]
    /\ UNCHANGED <<mirror, repoOperations, repoStart, repoPC, repoDeadline, repoReader,
                   outputBuilder, repoLock, repoPoll>>
    /\ UNCHANGED otherVars

\* git ends by itself, having cloned or pulled, or having failed.
gitExit(outcome) ==
    /\ repoCmd.state = "running"
    /\ outcome \in GitOutcomes(repoCmd.operation, mirror)
    /\ mirror' = outcome.mirror
    /\ repoCmd' = [ repoCmd EXCEPT !.state = "exited",
                                   !.exit = IF outcome.err = "nil" THEN 0 ELSE 1 ]
    /\ UNCHANGED <<repoOperations, repoStart, repoPC, repoDeadline, repoReader,
                   outputBuilder, repoLock, repoPoll>>
    /\ UNCHANGED otherVars

\* opCtx is done while git runs: exec.CommandContext kills the process.  A
\* killed clone leaves what it had written in the directory.
gitKilled ==
    /\ repoCmd.state = "running"
    /\ OpCtxDone
    /\ repoCmd' = [ repoCmd EXCEPT !.state = "exited", !.exit = 1, !.killedBy = OpCtxCause ]
    /\ UNCHANGED <<mirror, repoOperations, repoStart, repoPC, repoDeadline, repoReader,
                   outputBuilder, repoLock, repoPoll>>
    /\ UNCHANGED otherVars

\* scanner.Scan() returns a line; under op.mu the reader appends it to the
\* builder and stores the builder's text in op.Output.
readerScan_Op(s) ==
    /\ repoPC = "reading"
    /\ repoReader[s] = "scan"
    /\ repoCmd[s] # <<>>
    /\ RepoLockFree
    /\ repoCmd' = [ repoCmd EXCEPT ![s] = Tail(@) ]
    /\ outputBuilder' = BuilderAppend(outputBuilder, Head(repoCmd[s]))
    /\ repoOperations' = SetRepoOp([ op EXCEPT !.Output = BuilderAppend(outputBuilder, Head(repoCmd[s])) ])
    /\ UNCHANGED <<mirror, repoStart, repoPC, repoDeadline, repoReader, repoLock, repoPoll>>
    /\ UNCHANGED otherVars

\* scanner.Scan() returns false at end of file; the reader's wg.Done().
readerEOF_Op(s) ==
    /\ repoPC = "reading"
    /\ repoReader[s] = "scan"
    /\ repoCmd[s] = <<>>
    /\ repoCmd.state = "exited"
    /\ repoReader' = [ repoReader EXCEPT ![s] = "done" ]
    /\ UNCHANGED <<mirror, repoOperations, repoStart, repoPC, repoDeadline, repoCmd,
                   outputBuilder, repoLock, repoPoll>>
    /\ UNCHANGED otherVars

\* The fields manageRepo writes once git has ended, before getHeadCommit.
RepoFinal(r, builder, exit) ==
    [ r EXCEPT !.Output = TrimSpace(builder),
               !.Done = TRUE,
               !.RepoDir = RepoDirPath,
               !.Err = IF exit # 0 THEN "exit status" ELSE @,
               !.Status = IF exit # 0 THEN "error" ELSE "success" ]

\* wg.Wait(), cmd.Wait() and op.mu.Lock(): the final writes.  After a failed
\* command the deferred Unlock runs at once; after a successful one the lock
\* stays held for getHeadCommit.
manageRepoFinalize_Op ==
    /\ repoPC = "reading"
    /\ \A s \in Streams : repoReader[s] = "done"
    /\ RepoLockFree
    /\ repoOperations' = SetRepoOp(RepoFinal(op, outputBuilder, repoCmd.exit))
    /\ IF repoCmd.exit # 0
       THEN repoPC' = "returned" /\ repoLock' = FALSE
       ELSE repoPC' = "head" /\ repoLock' = TRUE
    /\ UNCHANGED <<mirror, repoStart, repoDeadline, repoCmd, repoReader, outputBuilder,
                   repoPoll>>
    /\ UNCHANGED otherVars

\* RepoHeadResult with a slip: a failed getHeadCommit leaves status success.
RepoHeadFailureKeepsSuccess(r, failed, head) ==
    IF failed THEN [ r EXCEPT !.Err = "could not get HEAD commit" ]
    ELSE [ r EXCEPT !.CommitHash = head ]

\* The fields written after getHeadCommit.
RepoHeadResult(r, failed, head) ==
    IF failed THEN [ r EXCEPT !.Err = "could not get HEAD commit", !.Status = "error" ]
    ELSE [ r EXCEPT !.CommitHash = head ]

\* getHeadCommit(opCtx, repoDir) returns, with op.mu still held; it fails if
\* opCtx is done.  Then the deferred op.mu.Unlock().
manageRepoHead_Op(failed) ==
    /\ repoPC = "head"
    /\ OpCtxDone => failed
    /\ repoOperations' = SetRepoOp(RepoHeadResult(op, failed, mirror.head))
    /\ repoLock' = FALSE
    /\ repoPC' = "returned"
    /\ UNCHANGED <<mirror, repoStart, repoDeadline, repoCmd, repoReader, outputBuilder,
                   repoPoll>>
    /\ UNCHANGED otherVars

\* GET /api/poll-repo-operation/{id}: the registry lookup, then the fields
\* copied under op.mu.RLock().
apiPollRepoOperationHandler(id) ==
    /\ IF id \notin DOMAIN repoOperations
       THEN repoPoll' = [ NoRepoPoll EXCEPT !.code = 404, !.id = id ]
       ELSE /\ RepoLockFree
            /\ repoPoll' = [ code |-> 200, id |-> id, status |-> op.Status,
                             output |-> op.Output, done |-> op.Done,
                             repoDir |-> op.RepoDir, commitHash |-> op.CommitHash,
                             error |-> op.Err ]
    /\ UNCHANGED <<mirror, repoOperations, repoStart, repoPC, repoDeadline, repoCmd,
                   repoReader, outputBuilder, repoLock>>
    /\ UNCHANGED otherVars

\* ------------------------------------------ the registry over many requests

\* Accepted run-prompt requests the model follows.
MaxRuns == 3

\* Values of fmt.Sprintf("%x", r.Int63()): r is one math/rand generator all
\* handler goroutines draw from, with no lock and no look at the registry.
Int63Values == {"id1", "id2", "id3"}

\* promptExecutions[promptExecutionID] = pe: the ID now leads to execution n.
Register(reg, id, n) == [ i \in DOMAIN reg \cup {id} |-> IF i = id THEN n ELSE reg[i] ]

\* apiRunPromptHandler over the life of the server: each accepted request
\* draws an ID, stores its new execution under it and answers with the ID.
apiRunPromptHandler_Many(method, pathOK, prompt, notebookName, id) ==
    /\ Len(issued) < MaxRuns
    /\ lastRunStatus' = RunPromptStatus(method, pathOK, prompt, notebookName)
    /\ IF RunPromptStatus(method, pathOK, prompt, notebookName) # 200 THEN
           UNCHANGED <<issued, owner>>
       ELSE
           /\ owner' = Register(owner, id, Len(issued) + 1)
           /\ issued' = Append(issued, id)
    /\ UNCHANGED found
    /\ UNCHANGED <<promptExecutions, taskPrompt, taskNotebook, orchPC, wg,
                   llmVars, bazelVars, pending, poll, crashed, pollTask, taskVars, repoVars,
                   nbVars>>

\* ------------------------------------------------- createNotebookHandler

IdleNotebook == [ pc |-> "idle", code |-> 0, failed |-> "none", syncs |-> 0 ]

NothingSeen == [ page |-> "none", listed |-> "none", runPrompt |-> 0 ]

\* os.Stat on the worktree path succeeds, and os.ReadDir lists it as a
\* directory: whatever the directory holds.
WorktreeExists(w) == w # "absent"

\* POST /create-notebook/{owner}/{repo}: the method and path checks; then
\* manageRepo is called with the request's context.
createNotebookHandler(method, pathOK) ==
    /\ notebook.pc = "idle"
    /\ sync.pc = "idle"
    /\ IF method # "POST" THEN
           notebook' = [ notebook EXCEPT !.pc = "returned", !.code = 405 ]
       ELSE IF ~pathOK THEN
           notebook' = [ notebook EXCEPT !.pc = "returned", !.code = 400 ]
       ELSE
           notebook' = [ notebook EXCEPT !.pc = "manageRepo", !.syncs = sync.n ]
    /\ seen' = NothingSeen
    /\ UNCHANGED <<worktree, coreVars, repoVars, idVars>>

\* createNotebookHandler's one call of manageRepo begins.
createNotebookManageRepo(input, statErr, mkdirErr) ==
    /\ notebook.pc = "manageRepo"
    /\ sync.n = notebook.syncs
    /\ manageRepoStat(input, statErr, mkdirErr)

\* manageRepo has returned to createNotebookHandler: an error is answered
\* 500; otherwise generateNotebookName and createWorktree start
\* git worktree add -b with the request's context.
createNotebookAfterRepo ==
    /\ notebook.pc = "manageRepo"
    /\ sync.pc = "idle"
    /\ sync.n > notebook.syncs
    /\ IF sync.cur.err # "nil"
       THEN notebook' = [ notebook EXCEPT !.pc = "returned", !.code = 500,
                                          !.failed = "manageRepo" ]
       ELSE notebook' = [ notebook EXCEPT !.pc = "git" ]
    /\ UNCHANGED <<worktree, seen, coreVars, repoVars, idVars>>

\* How git worktree add can end, and what it leaves at the worktree path:
\* the worktree; nothing, when it fails before it creates the directory (the
\* branch exists) or fails and removes what it created; or what it had
\* written, when the request's context ends and exec.CommandContext kills it.
WorktreeAddOutcomes ==
    { [ err |-> "nil", left |-> "worktree" ],
      [ err |-> "exit status", left |-> "absent" ],
      [ err |-> "signal: killed", left |-> "absent" ],
      [ err |-> "signal: killed", left |-> "partial" ] }

\* createWorktree: cmd.CombinedOutput() returns; the handler redirects to the
\* notebook page or answers 500.
createWorktree(outcome) ==
    /\ notebook.pc = "git"
    /\ worktree' = outcome.left
    /\ IF outcome.err # "nil"
       THEN notebook' = [ notebook EXCEPT !.pc = "returned", !.code = 500,
                                          !.failed = "createWorktree" ]
       ELSE notebook' = [ notebook EXCEPT !.pc = "returned", !.code = 303 ]
    /\ UNCHANGED <<seen, coreVars, repoVars, idVars>>

\* notebookHandler: os.Stat on the worktree path decides between the page
\* and the not-found message.
notebookHandler ==
    /\ notebook.pc \in {"git", "returned"}
    /\ seen' = [ seen EXCEPT !.page = IF WorktreeExists(worktree) THEN "shown" ELSE "not found" ]
    /\ UNCHANGED <<notebook, worktree, coreVars, repoVars, idVars>>

\* listNotebooks: every directory under worktree/{owner}/{repo} is a notebook.
listNotebooks ==
    /\ notebook.pc \in {"git", "returned"}
    /\ seen' = [ seen EXCEPT !.listed = IF WorktreeExists(worktree) THEN "yes" ELSE "no" ]
    /\ UNCHANGED <<notebook, worktree, coreVars, repoVars, idVars>>

\* The os.Stat of apiRunPromptHandler on the new notebook's worktree path:
\* 404, or the prompt is accepted.
runPromptStat ==
    /\ notebook.pc \in {"git", "returned"}
    /\ seen' = [ seen EXCEPT !.runPrompt = IF WorktreeExists(worktree) THEN 200 ELSE 404 ]
    /\ UNCHANGED <<notebook, worktree, coreVars, repoVars, idVars>>

\* The registry lookup of apiPollTaskHandler and apiSummarizeTaskHandler under
\* promptExecutionsMu: the execution the ID leads to, or none (404).
registryLookup_Many(id) ==
    /\ found' = [ id |-> id, execution |-> IF id \in DOMAIN owner THEN owner[id] ELSE 0 ]
    /\ UNCHANGED <<issued, owner>>
    /\ UNCHANGED <<execVars, llmVars, bazelVars, pending, poll, crashed, pollTask, taskVars,
                   repoVars, nbVars>>

\* ---------------------------------------------------------- specifications

Init ==
    /\ promptExecutions = <<>>
    /\ lastRunStatus = 0
    /\ taskPrompt = <<>>
    /\ taskNotebook = <<>>
    /\ orchPC = "idle"
    /\ wg = 0
    /\ llmPC = "idle"
    /\ cmd = NoCmd
    /\ emitted = [ lines |-> 0, chars |-> 0 ]
    /\ combinedOutputBuilder = <<>>
    /\ reader = [ s \in Streams |-> IdleReader ]
    /\ bazelPC = "idle"
    /\ bazelLocal = [ queryErr |-> "nil", targets |-> <<>> ]
    /\ testInvoked = FALSE
    /\ pending = [ o \in Ops |-> NoPending ]
    /\ poll = [ p \in Pollers |-> IdlePoll ]
    /\ crashed = FALSE
    /\ pollTask = NoPollTask
    /\ tasks = <<>>
    /\ taskPC = "idle"
    /\ taskReader = [ s \in Streams |-> "idle" ]
    /\ taskPoll = IdleTaskPoll
    /\ taskSeen = [ code |-> 0, prev |-> NoObservation, cur |-> NoObservation ]
    /\ mirror = NoMirror
    /\ sync = IdleSync
    /\ repoOperations = <<>>
    /\ repoStart = [ code |-> 0, ctx |-> "none" ]
    /\ repoPC = "idle"
    /\ repoDeadline = FALSE
    /\ repoCmd = NoRepoCmd
    /\ repoReader = [ s \in Streams |-> "idle" ]
    /\ outputBuilder = <<>>
    /\ repoLock = FALSE
    /\ repoPoll = NoRepoPoll
    /\ issued = <<>>
    /\ owner = <<>>
    /\ found = [ id |-> "", execution |-> 0 ]
    /\ notebook = IdleNotebook
    /\ worktree = "absent"
    /\ seen = NothingSeen

\* The requests a client posts to /api/run-prompt/.
RunRequests(prompts, notebooks) ==
    \E method \in {"POST", "GET"}, pathOK \in BOOLEAN,
       prompt \in prompts, nb \in notebooks :
      apiRunPromptHandler(method, pathOK, prompt, nb)

\* The external process prints a line drawn from `lines`, or exits.
ProcSteps(lines) ==
    \/ \E s \in Streams, line \in lines : procEmit(s, line)
    \/ \E code \in {0, 1} : procExit(code)

\* The steps of executePromptTask, of runLLMCommand with its two readers, and
\* of the agent process, which prints lines drawn from `lines`.
AgentSteps(lines) ==
    \/ executePromptTaskLaunch
    \/ executePromptTaskJoin
    \/ runLLMCommandReset
    \/ \E outcome \in {"started", "stdout pipe", "stderr pipe", "start"} :
         runLLMCommandSpawn("claude", outcome)
    \/ ProcSteps(lines)
    \/ \E s \in Streams : readerScan(s)
    \/ \E s \in Streams : readerStore(s)
    \/ \E s \in Streams : readerEOF(s)
    \/ runLLMCommandFinalize
    \/ runLLMCommandReturn

\* The steps of runBazelQueryAndTest and of the two bazel processes.
BazelSteps ==
    \/ runBazelStart
    \/ \E out \in QueryOutputs, err \in ExecErrs : runBazelQueryDone(out, err)
    \/ runBazelGate
    \/ \E out \in TestOutputs, err \in ExecErrs : runBazelTestDone(out, err)
    \/ runBazelReturn

\* The steps of client p polling /api/summarize-task/, the summarizer
\* answering with a text of `texts` or failing.
PollSteps(p, texts) ==
    \/ \E id \in ExecIDs \cup {"unknown"}, form \in PollForms : summarizeLookup(p, id, form)
    \/ buildSnapshot(p)
    \/ \E answer \in SummaryAnswers(texts) : buildSummarize(p, answer)
    \/ summarizeOverall(p)
    \/ summarizeRespond(p)

\* Spec: one execution of any prompt on any notebook, polled by one client.
\* The agent prints lines "a"; the summarizer answers "ok" or fails.
Next ==
    \/ RunRequests(Prompts, NotebookNames)
    \/ AgentSteps({<<"a">>})
    \/ BazelSteps
    \/ PollSteps("p1", {<<"ok">>})

Spec == Init /\ [][Next]_vars

\* The prompt "fix the bug", which triggers no build sub-Operation.
FixTheBug == <<"f", "i", "x", " ", "t", "h", "e", " ", "b", "u", "g">>

\* SpecAgent: one execution of "fix the bug", polled by one client.  The agent
\* prints lines of Lines; the summarizer answers a text of SummaryTexts or fails.
NextAgent ==
    \/ RunRequests({FixTheBug}, {<<"o", "-", "r", "-", "1">>})
    \/ AgentSteps(Lines)
    \/ PollSteps("p1", SummaryTexts)

SpecAgent == Init /\ [][NextAgent]_vars

\* SpecCache: as SpecAgent, polled by two clients at once.
NextCache ==
    \/ RunRequests({FixTheBug}, {<<"o", "-", "r", "-", "1">>})
    \/ AgentSteps(Lines)
    \/ \E p \in Pollers : PollSteps(p, SummaryTexts)

SpecCache == Init /\ [][NextCache]_vars

\* SpecPoll: one execution of "fix the bug", polled through both endpoints.
NextPoll ==
    \/ RunRequests({FixTheBug}, {<<"o", "-", "r", "-", "1">>})
    \/ AgentSteps({<<"a">>})
    \/ PollSteps("p1", {<<"ok">>})
    \/ \E id \in ExecIDs \cup {"unknown"} : apiPollTaskHandler(id)

SpecPoll == Init /\ [][NextPoll]_vars

\* SpecLive: one execution of "fix the bug" or "test w" on any notebook,
\* without polls.  The goroutines keep being scheduled and each external
\* process exits after a bounded number of lines.
NextLive ==
    \/ RunRequests({FixTheBug, <<"t", "e", "s", "t", " ", "w">>}, NotebookNames)
    \/ AgentSteps({<<"a">>})
    \/ BazelSteps

SpecLive ==
    Init /\ [][NextLive]_vars /\ WF_vars(AgentSteps({<<"a">>}) \/ BazelSteps)

\* SpecTask: one Task of the single-agent version, polled through both
\* endpoints.
NextTask ==
    \/ \E method \in {"POST", "GET"}, pathOK \in BOOLEAN,
          prompt \in {FixTheBug, <<>>}, nb \in NotebookNames :
         apiRunPromptHandler_Task(method, pathOK, prompt, nb)
    \/ \E outcome \in {"started", "stdout pipe", "stderr pipe", "start"} :
         executePromptTask_Task(outcome)
    \/ ProcSteps(Lines)
    \/ \E s \in Streams : readerScan_Task(s)
    \/ \E s \in Streams : readerEOF_Task(s)
    \/ executePromptTaskFinalize_Task
    \/ \E id \in ExecIDs \cup {"unknown"} : apiPollTaskHandler_Task(id)
    \/ \E id \in ExecIDs \cup {"unknown"} : apiSummarizeTaskHandler_Task(id)
    \/ \E answer \in SummaryAnswers(SummaryTexts) : runGeminiSummary_Task(answer)
    \/ summarizeRespond_Task

SpecTask == Init /\ [][NextTask]_vars


\* SpecSync: repoHandler's manageRepo called up to MaxSyncs times on one
\* repository, each call returning before the next begins.
NextSync ==
    \/ \E input \in RepoInputs, statErr \in BOOLEAN, mkdirErr \in BOOLEAN :
         manageRepoStat(input, statErr, mkdirErr)
    \/ \E outcome \in AllGitOutcomes : manageRepoGitDone(outcome)
    \/ \E failed \in BOOLEAN : getHeadCommit(failed)

SpecSync == Init /\ [][NextSync]_vars

\* The steps of the manageRepo goroutine, its two readers and git.
RepoSteps ==
    \/ manageRepoReset_Op
    \/ \E statErr \in BOOLEAN, mkdirErr \in BOOLEAN,
          outcome \in {"started", "stdout pipe", "stderr pipe", "start", "context canceled"} :
         manageRepoStart_Op(statErr, mkdirErr, outcome)
    \/ \E s \in Streams, line \in GitLines : gitEmit(s, line)
    \/ \E outcome \in AllGitOutcomes : gitExit(outcome)
    \/ gitKilled
    \/ \E s \in Streams : readerScan_Op(s)
    \/ \E s \in Streams : readerEOF_Op(s)
    \/ manageRepoFinalize_Op
    \/ \E failed \in BOOLEAN : manageRepoHead_Op(failed)

\* SpecRepo: one repo operation of the repo-operation version, started over
\* HTTP and polled.
NextRepo ==
    \/ \E method \in {"POST", "GET"}, repoURL \in RepoURLs :
         apiStartRepoOperationHandler(method, repoURL)
    \/ requestContextCanceled
    \/ opContextDeadline
    \/ RepoSteps
    \/ \E id \in OperationIDs \cup {"unknown"} : apiPollRepoOperationHandler(id)

SpecRepo == Init /\ [][NextRepo]_vars

\* SpecIDs: the run-prompt requests of one server, up to MaxRuns accepted, and
\* the registry lookups of its polls.
NextIDs ==
    \/ \E method \in {"POST", "GET"}, pathOK \in BOOLEAN, prompt \in {FixTheBug, <<>>},
          nb \in NotebookNames, id \in Int63Values :
         apiRunPromptHandler_Many(method, pathOK, prompt, nb, id)
    \/ \E id \in Int63Values : registryLookup_Many(id)

SpecIDs == Init /\ [][NextIDs]_vars

\* SpecNotebook: one createNotebookHandler call with its manageRepo call,
\* and the existence checks of the other handlers.
NextNotebook ==
    \/ \E method \in {"POST", "GET"}, pathOK \in BOOLEAN : createNotebookHandler(method, pathOK)
    \/ \E input \in RepoInputs, statErr \in BOOLEAN, mkdirErr \in BOOLEAN :
         createNotebookManageRepo(input, statErr, mkdirErr)
    \/ \E outcome \in AllGitOutcomes : manageRepoGitDone(outcome)
    \/ \E failed \in BOOLEAN : getHeadCommit(failed)
    \/ createNotebookAfterRepo
    \/ \E outcome \in WorktreeAddOutcomes : createWorktree(outcome)
    \/ notebookHandler
    \/ listNotebooks
    \/ runPromptStat

SpecNotebook == Init /\ [][NextNotebook]_vars

\* ------------------------------------------------------------------ claims

C2_NoLineMissing ==
    (Registered /\ PE.Claude.Done /\ cmd.state = "exited")
        => CountNonSpace(PE.Claude.Output) = emitted.chars

\* C3: the overallStatus of a response is success exactly when every relevant
\* sub-Operation is done and successful.
C3_SuccessIffAllRelevant ==
    \A p \in Pollers :
      (poll[p].pc = "respond" /\ poll[p].code = 200)
          => (poll[p].overall = "success" <=> poll[p].rule = "success")

\* C4: the overallStatus of a response is error whenever a relevant
\* sub-Operation is done and failed, and running whenever the relevant
\* sub-Operations are neither all successful nor any of them failed.
C4_ErrorWhenAnyFailed ==
    \A p \in Pollers :
      (poll[p].pc = "respond" /\ poll[p].code = 200)
          => /\ poll[p].rule = "error" => poll[p].overall = "error"
             /\ poll[p].rule = "running" => poll[p].overall = "running"

\* Poll p holds the response data of Operation o, taken when o was done with
\* a non-empty output.
HoldsFinal(p, o) ==
    /\ poll[p].resp[o].status # "none"
    /\ poll[p].resp[o].done
    /\ poll[p].resp[o].output # <<>>

\* C5: two polls of a completed Operation with non-empty output return the
\* same summary, and at most one of them called the summarizer.
C5_SameSummaryOneCall ==
    \A o \in Ops :
      (HoldsFinal("p1", o) /\ HoldsFinal("p2", o))
          => /\ poll["p1"].resp[o].summary = poll["p2"].resp[o].summary
             /\ ~(poll["p1"].resp[o].framing # "none" /\ poll["p2"].resp[o].framing # "none")

\* C6: once a summary is cached for an Operation, the cached value is never
\* overwritten or dropped.
C6_CacheNeverOverwritten ==
    [][ Registered =>
          \A o \in Ops :
            PE[o].HasSummary =>
              (PE'[o].HasSummary /\ PE'[o].Summary = PE[o].Summary) ]_vars

\* C7: a summary computed from a snapshot taken while the task was running
\* is never stored: the cached summary and its flag change only in the step
\* of a poll whose snapshot was done; and a poll whose snapshot was running
\* with a non-empty output has called the summarizer and returns what that
\* call gave, not a stored summary.
C7_RunningSummaryNotStored ==
    /\ [][ TaskRegistered =>
             ((Task'.hasFinalSummary # Task.hasFinalSummary
                  \/ Task'.finalSummary # Task.finalSummary)
                => (taskPoll.pc = "summarize" /\ taskPoll.snap.taskDone)) ]_vars
    /\ []((taskPoll.pc = "respond" /\ taskPoll.code = 200
             /\ ~taskPoll.snap.taskDone /\ taskPoll.snap.currentOutput # <<>>)
            => (taskPoll.called /\ ~taskPoll.snap.cachedHasFinalSummary))

\* C7 witness: a poll summarized the output of the running task, the task
\* has finished since, and no summary is stored.
C7_Witness ==
    /\ TaskRegistered
    /\ taskPoll.pc = "respond"
    /\ taskPoll.called
    /\ ~taskPoll.snap.taskDone
    /\ taskPoll.snap.currentOutput # <<>>
    /\ taskPoll.summary \in SummaryTexts
    /\ Task.done
    /\ ~Task.hasFinalSummary

\* C8: while the agent process is running, what the readers have read of
\* its output is visible in the Operation's output.
C8_PartialOutputVisible ==
    (Registered /\ cmd.state = "running")
        => CountNonSpace(PE.Claude.Output) >= CountNonSpace(combinedOutputBuilder)

\* The two fixed texts of a test Operation that ran no test.
NothingToTestTexts ==
    { <<"No Bazel test targets found or query failed.">>,
      <<"Bazel query found no test targets.">> }

\* C10: when the build query has failed or printed no target name, the test
\* process is never started, the test Operation ends done with status
\* success, no error and a fixed text, whatever the agent's state is.
C10_NothingToTestIsSuccess ==
    (Registered /\ PE.BazelQuery.Done
       /\ (PE.BazelQuery.Status = "error" \/ Fields(PE.BazelQuery.Output) = <<>>))
        => /\ ~testInvoked
           /\ bazelPC = "returned" => PE.BazelTest.Done
           /\ PE.BazelTest.Done =>
                /\ PE.BazelTest.Status = "success"
                /\ PE.BazelTest.Err = "nil"
                /\ PE.BazelTest.Output \in NothingToTestTexts

\* C10 witness: the query failed after printing a target, the agent failed,
\* and the test Operation is done.
C10_Witness ==
    /\ Registered
    /\ PE.BazelQuery.Status = "error"
    /\ PE.BazelQuery.Output # <<>>
    /\ PE.Claude.Status = "error"
    /\ PE.BazelTest.Done
    /\ bazelPC = "returned"

\* C9: of two consecutive polls of a task, the second of which finds it
\* still running, the second's output is at least as long as the first's.
C9_OutputNeverShrinks ==
    (taskSeen.prev.status # "none" /\ ~taskSeen.cur.done)
        => Len(taskSeen.prev.output) <= Len(taskSeen.cur.output)

\* C9 witness: two consecutive polls of the running task, the output having
\* grown in between.
C9_Witness ==
    /\ taskSeen.prev.status # "none"
    /\ ~taskSeen.cur.done
    /\ taskSeen.prev.output # <<>>
    /\ Len(taskSeen.prev.output) < Len(taskSeen.cur.output)

\* C11: executePromptTask launches the agent for every prompt, and launches
\* the build goroutine exactly when the prompt starts with "test " and has a
\* non-space character after it; "fix the bug" launches the agent alone.
\* Nothing is launched before executePromptTask runs.
C11_LaunchPolicy ==
    /\ orchPC \in {"idle", "start"} => (llmPC = "idle" /\ bazelPC = "idle")
    /\ orchPC \in {"wait", "returned"} =>
         /\ llmPC # "idle"
         /\ bazelPC # "idle" <=>
              /\ Len(taskPrompt) >= 5
              /\ SubSeq(taskPrompt, 1, 5) = <<"t", "e", "s", "t", " ">>
              /\ \E i \in 6..Len(taskPrompt) : ~IsSpace(taskPrompt[i])
         /\ taskPrompt = FixTheBug => bazelPC = "idle"

\* C11 witness: the prompt "test  " (the prefix and a blank) has launched the
\* agent and no build goroutine.
C11_Witness ==
    /\ orchPC = "wait"
    /\ taskPrompt = <<"t", "e", "s", "t", " ", " ">>
    /\ llmPC = "returned"
    /\ bazelPC = "idle"

\* C12: for an execution whose prompt triggered no build sub-Operation, the
\* overallStatus of every response is the agent's status: the one the same
\* response carries for the agent, or the one the agent holds now.
C12_UntriggeredEqualsAgent ==
    \A p \in Pollers :
      (poll[p].pc = "respond" /\ poll[p].code = 200 /\ ~Triggered(taskPrompt))
          => poll[p].overall \in {poll[p].resp["Claude"].status, PE.Claude.Status}

\* C13: executePromptTask's wg.Wait() can return as soon as every goroutine
\* it launched has returned, and executePromptTask has not returned before.
C13_JoinOfLaunched ==
    /\ (orchPC = "wait" /\ llmPC = "returned" /\ bazelPC \in {"idle", "returned"})
         => wg = 0
    /\ orchPC = "returned"
         => (llmPC = "returned" /\ bazelPC \in {"idle", "returned"})

\* C14: a poll answers from the state it has read without waiting for an
\* external process: no poll in flight is ever at the point where the
\* handler waits for the summarizer command to answer.
C14_PollNeverWaits ==
    \A p \in Pollers : poll[p].pc # "summarize"

\* C15: a poll of an ID the registry does not hold is answered 404 with no
\* status, by apiSummarizeTaskHandler and by apiPollTaskHandler; an answer
\* with a status is for an ID the registry holds.
C15_UnknownIsNotFound ==
    /\ \A p \in Pollers :
         /\ (poll[p].pc # "idle" /\ poll[p].id \notin DOMAIN promptExecutions) =>
              /\ poll[p].pc = "respond"
              /\ poll[p].code = 404
              /\ poll[p].overall = "none"
              /\ \A o \in Ops : poll[p].resp[o] = NoEntry
         /\ (poll[p].pc = "respond" /\ poll[p].code # 404) =>
              poll[p].id \in DOMAIN promptExecutions
    /\ (pollTask.code # 0 /\ pollTask.id \notin DOMAIN promptExecutions) =>
         (pollTask.code = 404 /\ pollTask.status = "none")
    /\ pollTask.code = 200 => pollTask.id \in DOMAIN promptExecutions

\* C15 witness: with an execution registered, both endpoints have answered a
\* poll of another ID.
C15_Witness ==
    /\ Registered
    /\ poll["p1"].pc = "respond"
    /\ poll["p1"].id = "unknown"
    /\ poll["p1"].code = 404
    /\ pollTask.id = "unknown"
    /\ pollTask.code = 404

\* C16 as the spec states it: a well-formed POST is answered 400 if the
\* prompt is empty or the notebook has no worktree, and otherwise registers
\* an execution and returns its ID.
C16_UnknownNotebookIs400 ==
    [][ \A prompt \in Prompts, nb \in NotebookNames :
          apiRunPromptHandler("POST", TRUE, prompt, nb) =>
            IF prompt = <<>> \/ nb \notin {<<"o", "-", "r", "-", "1">>, <<"n", "b">>}
            THEN lastRunStatus' = 400 /\ ~Registered'
            ELSE lastRunStatus' = 200 /\ Registered' ]_vars

\* C16 amended: a well-formed POST is answered 400 if the prompt is empty,
\* 404 if the prompt is not empty and the notebook has no worktree, and
\* otherwise registers an execution and returns its ID.
C16_UnknownNotebookIs404 ==
    [][ \A prompt \in Prompts, nb \in NotebookNames :
          apiRunPromptHandler("POST", TRUE, prompt, nb) =>
            IF prompt = <<>>
            THEN lastRunStatus' = 400 /\ ~Registered'
            ELSE IF nb \notin {<<"o", "-", "r", "-", "1">>, <<"n", "b">>}
            THEN lastRunStatus' = 404 /\ ~Registered'
            ELSE /\ lastRunStatus' = 200
                 /\ DOMAIN promptExecutions' \subseteq ExecIDs
                 /\ Registered' ]_vars

\* C16 witness: the last request named a notebook without a worktree and was
\* answered 404; nothing is registered.
C16_Witness ==
    /\ lastRunStatus = 404
    /\ ~Registered

\* C17: a summarizer call that fails (an error, or the time bound) yields one
\* of the two fixed texts as the summary of a response entry that carries
\* the snapshot's status, output, done and error, and the call changes no
\* Operation's status, output, done or error; an entry for an empty output
\* carries one of the two fixed texts for that case, without a call.
C17_SummaryFailureIsFallback ==
    /\ [][ \A p \in Pollers, answer \in SummaryAnswers(SummaryTexts) :
             buildSummarize(p, answer) =>
               LET e == poll'[p].resp[poll[p].op]
                   snap == poll[p].snap
               IN
               /\ answer.err # "nil" =>
                    e.summary = IF snap.Done THEN <<"Could not generate final summary.">>
                                             ELSE <<"Could not generate summary.">>
               /\ answer.err = "nil" => e.summary = answer.s
               /\ e.status = snap.Status /\ e.output = snap.Output
               /\ e.done = snap.Done /\ e.error = snap.Err
               /\ \A o \in Ops :
                    /\ PE'[o].Status = PE[o].Status /\ PE'[o].Err = PE[o].Err
                    /\ PE'[o].Output = PE[o].Output /\ PE'[o].Done = PE[o].Done ]_vars
    /\ [](\A p \in Pollers, o \in Ops :
            (poll[p].resp[o].status # "none" /\ poll[p].resp[o].output = <<>>) =>
              /\ poll[p].resp[o].framing = "none"
              /\ poll[p].resp[o].summary =
                   IF poll[p].resp[o].done THEN <<"No output available for final summary.">>
                                           ELSE <<"No output available yet.">>)

\* C17 witness: a response carries the fallback text for the agent, which
\* succeeded with output, and the fixed text for the query, whose output is
\* empty.
C17_Witness ==
    /\ poll["p1"].resp["Claude"].status = "success"
    /\ poll["p1"].resp["Claude"].output # <<>>
    /\ poll["p1"].resp["Claude"].summary = <<"Could not generate final summary.">>
    /\ poll["p1"].resp["BazelQuery"].status # "none"
    /\ poll["p1"].resp["BazelQuery"].output = <<>>

\* C18: a summarizer call made for the agent uses runLLMSummary, and one
\* made for the build query or the build test uses runBazelSummary.
C18_FramingByRole ==
    \A p \in Pollers, o \in Ops :
      poll[p].resp[o].framing # "none" =>
        poll[p].resp[o].framing =
          IF o = "Claude" THEN "runLLMSummary" ELSE "runBazelSummary"

\* C19: once a sub-Operation of an execution has ended in error, every other
\* sub-Operation the execution launched still gets done.
C19_SiblingsComplete ==
    /\ (Registered /\ PE.Claude.Status = "error" /\ Triggered(taskPrompt))
         ~> (Registered /\ PE.BazelQuery.Done /\ PE.BazelTest.Done)
    /\ (Registered /\ PE.BazelQuery.Status = "error")
         ~> (Registered /\ PE.Claude.Done /\ PE.BazelTest.Done)
    /\ (Registered /\ PE.BazelTest.Status = "error")
         ~> (Registered /\ PE.Claude.Done)

\* C20: when the agent Operation is done, its status is success if the
\* process exited with code zero and error otherwise; after a non-zero exit
\* the exit error is stored and the output is what the readers collected;
\* after a pipe or start failure that failure is stored.
C20_FinalStatusFromExit ==
    (Registered /\ PE.Claude.Done) =>
      /\ PE.Claude.Status \in {"success", "error"}
      /\ cmd.state # "running"
      /\ cmd.state = "exited" =>
           /\ PE.Claude.Status = "success" <=> cmd.exit = 0
           /\ PE.Claude.Err = IF cmd.exit = 0 THEN "nil" ELSE "exit status"
           /\ PE.Claude.Output = TrimSpace(combinedOutputBuilder)
      /\ cmd.state = "none" =>
           /\ PE.Claude.Status = "error"
           /\ PE.Claude.Err \in {"stdout pipe", "stderr pipe", "start"}
           /\ PE.Claude.Output = <<>>

\* C20 witness: the process printed, exited with a non-zero code, and the
\* Operation is done in error with its output kept.
C20_Witness ==
    /\ Registered
    /\ PE.Claude.Done
    /\ cmd.state = "exited"
    /\ cmd.exit # 0
    /\ PE.Claude.Status = "error"
    /\ PE.Claude.Err = "exit status"
    /\ PE.Claude.Output # <<>>

\* C21: a call of manageRepo that returns an error leaves the clone
\* directory as the call found it; in particular the call after a failed
\* clone of an absent directory finds it absent and chooses the clone again.
C21_FailureDoesNotAdvance ==
    /\ (sync.pc = "idle" /\ sync.cur.err # "nil" /\ sync.cur.before # "none")
         => mirror.dir = sync.cur.before
    /\ (sync.prev.before = "absent" /\ sync.prev.err = "git clone failed"
          /\ sync.cur.operation # "none")
         => sync.cur.operation = "git clone"

\* C22: manageRepo chooses the clone exactly when os.Stat finds no clone
\* directory at that call, and then creates the directory before git runs; a
\* call that returns no error returns the directory path and the HEAD of the
\* repository now on disk; the call after a successful one chooses the pull.
C22_CloneThenPull ==
    /\ sync.cur.operation # "none" =>
         sync.cur.operation = IF sync.cur.before = "absent" THEN "git clone" ELSE "git pull"
    /\ sync.pc = "git" => mirror.dir # "absent"
    /\ (sync.pc = "idle" /\ sync.cur.before # "none" /\ sync.cur.err = "nil") =>
         /\ sync.cur.repoDir = RepoDirPath
         /\ sync.cur.commitHash \in Revs
         /\ sync.cur.commitHash = mirror.head
         /\ mirror.dir = "repo"
    /\ (sync.prev.before # "none" /\ sync.prev.err = "nil" /\ sync.cur.operation # "none") =>
         sync.cur.operation = "git pull"

\* C22 witness: the first call cloned into the absent directory, the second
\* pulled, and both returned a commit hash.
C22_Witness ==
    /\ sync.n = 2
    /\ sync.pc = "idle"
    /\ sync.prev.before = "absent"
    /\ sync.prev.operation = "git clone"
    /\ sync.prev.err = "nil"
    /\ sync.prev.commitHash \in Revs
    /\ sync.cur.operation = "git pull"
    /\ sync.cur.err = "nil"
    /\ sync.cur.commitHash \in Revs

\* C23: the end of the HTTP request that started a repo operation does not
\* end the git process and does not make the operation fail: git is killed
\* only at the operation's own time bound, and no operation fails on the
\* request's canceled context.
C23_RequestEndDoesNotCancel ==
    /\ repoCmd.killedBy # "request"
    /\ OpRegistered => op.Err # "context canceled"

\* C24: a poll of a repo operation that reports status success carries a
\* non-empty directory path and a non-empty commit hash.
C24_SuccessHasPathAndCommit ==
    (repoPoll.code = 200 /\ repoPoll.status = "success")
        => /\ repoPoll.repoDir # ""
           /\ repoPoll.commitHash # ""
           /\ repoPoll.done

\* C24 witness: manageRepo has returned and a poll has reported success with
\* the path and a commit hash.
C24_Witness ==
    /\ repoPoll.code = 200
    /\ repoPoll.status = "success"
    /\ repoPoll.repoDir = RepoDirPath
    /\ repoPoll.commitHash \in Revs
    /\ repoPC = "returned"

\* C25: apiRunPromptHandler never answers with an ID it has answered with
\* before, and an execution stored in the registry is never replaced by
\* another under the same ID.
C25_IDNeverReused ==
    /\ [](\A i, j \in 1..Len(issued) : i # j => issued[i] # issued[j])
    /\ [][ \A id \in DOMAIN owner :
             id \in DOMAIN owner' /\ owner'[id] = owner[id] ]_vars

\* C26: after createWorktree has failed, the worktree path does not exist
\* for the notebook page, for the notebook listing and for start-prompt.
C26_FailedCreateLeavesNothing ==
    (notebook.pc = "returned" /\ notebook.failed = "createWorktree")
        => /\ ~WorktreeExists(worktree)
           /\ seen.page # "shown"
           /\ seen.listed # "yes"
           /\ seen.runPrompt # 200

\* C27: the bazel test process is started only when the query Operation is
\* done with status success and its output names at least one target, which
\* are the targets tested; and the test Operation is not done, nor being
\* written as done, while the query Operation is not done.
C27_TestGatedByQuery ==
    Registered =>
      /\ testInvoked =>
           /\ PE.BazelQuery.Done
           /\ PE.BazelQuery.Status = "success"
           /\ Fields(PE.BazelQuery.Output) # <<>>
           /\ bazelLocal.targets = Fields(PE.BazelQuery.Output)
      /\ PE.BazelTest.Done => PE.BazelQuery.Done
      /\ pending["BazelTest"].open => PE.BazelQuery.Done
      /\ bazelPC = "test" => testInvoked

\* C27 witness: the query named a target, the test process ran and failed,
\* and the build goroutine has returned.
C27_Witness ==
    /\ Registered
    /\ testInvoked
    /\ bazelLocal.targets = << <<"t">> >>
    /\ PE.BazelTest.Done
    /\ PE.BazelTest.Status = "error"
    /\ bazelPC = "returned"

\* C28: the stdout reader and the stderr reader of runLLMCommand are never
\* both inside a write to the shared builder.
C28_ReaderWritesExclusive ==
    ~(reader["stdout"].pc = "store" /\ reader["stderr"].pc = "store")

\* C29: a poll handler reads an Operation's fields only while no writer is
\* inside its lock section on that Operation: the Done and Status read for
\* overallStatus, and the Summary read that chooses the summarization
\* function.
C29_PollReadsUnderLock ==
    [][ \A p \in Pollers :
          /\ (poll[p].pc = "overall" /\ poll'[p].pc = "respond")
               => LockFree(PrimaryOp(poll[p].form))
          /\ (poll[p].pc = "summarize" /\ poll'[p].pc # "summarize")
               => LockFree(poll[p].op) ]_vars

\* C30: a step of a poll handler leaves every Operation's status, output,
\* done and error as they are and adds no field to the execution or to the
\* registry; it may change an Operation's cached summary and has-summary flag.
C30_PollWritesOnlySummary ==
    [][ (Registered /\ (poll' # poll \/ pollTask' # pollTask)) =>
          /\ DOMAIN promptExecutions' = DOMAIN promptExecutions
          /\ DOMAIN PE' = Ops
          /\ \A o \in Ops :
               /\ PE'[o].Status = PE[o].Status
               /\ PE'[o].Output = PE[o].Output
               /\ PE'[o].Done = PE[o].Done
               /\ PE'[o].Err = PE[o].Err
               /\ DOMAIN PE'[o] = DOMAIN NewLLMResponse ]_vars

\* C30 witness: polls have stored a summary for the failed agent and for the
\* build query, and a response is ready.
C30_Witness ==
    /\ Registered
    /\ PE.Claude.Status = "error"
    /\ PE.Claude.HasSummary
    /\ PE.BazelQuery.HasSummary
    /\ poll["p1"].pc = "respond"
    /\ poll["p1"].code = 200

\* C31: the overallStatus of a response agrees with the status and done the
\* same response carries for the Operation overallStatus is decided by; in
\* particular it is not success while the agent's entry says running, when
\* the agent decides it.
C31_ResponseIsOneSnapshot ==
    \A p \in Pollers :
      (poll[p].pc = "respond" /\ poll[p].code = 200) =>
        LET e == poll[p].resp[PrimaryOp(poll[p].form)] IN
        /\ poll[p].overall = Overall(e.done, e.status)
        /\ (PrimaryOp(poll[p].form) = "Claude" /\ poll[p].overall = "success")
             => poll[p].resp["Claude"].status # "running"

\* done, status and error of one Operation fit together.
Coherent(done, status, err) ==
    /\ status \in {"running", "success", "error"}
    /\ done <=> status \in {"success", "error"}
    /\ err # "nil" <=> status = "error"

\* C32: whatever a poll handler reads of a registered Operation is coherent:
\* the fields as stored, the entries of a response, and the done and status
\* from which overallStatus is computed.
C32_ObservedFieldsCoherent ==
    /\ [](Registered =>
            /\ \A o \in Ops : Coherent(PE[o].Done, PE[o].Status, PE[o].Err)
            /\ \A p \in Pollers, o \in Ops :
                 poll[p].resp[o].status # "none" =>
                   Coherent(poll[p].resp[o].done, poll[p].resp[o].status, poll[p].resp[o].error))
    /\ [][ \A p \in Pollers :
             (poll[p].pc = "overall" /\ poll'[p].pc = "respond") =>
               \E d \in BOOLEAN, st \in {"running", "success", "error"} :
                 /\ d <=> st \in {"success", "error"}
                 /\ poll'[p].overall = Overall(d, st)
                 /\ \/ (d = PE[PrimaryOp(poll[p].form)].Done
                          /\ st = PE[PrimaryOp(poll[p].form)].Status)
                    \/ /\ pending[PrimaryOp(poll[p].form)].open
                       /\ d = pending[PrimaryOp(poll[p].form)].new.Done
                       /\ st = pending[PrimaryOp(poll[p].form)].new.Status ]_vars

\* C33: an Operation with a cached summary is done with a non-empty output,
\* and the summary was stored by a poll whose snapshot was done and held the
\* output the Operation has, from the text the summarizer gave for it.
C33_SummaryIsOfFinalOutput ==
    /\ [](Registered =>
            \A o \in Ops :
              PE[o].HasSummary =>
                (PE[o].Done /\ PE[o].Output # <<>> /\ PE[o].Summary \in SummaryTexts))
    /\ [][ Registered =>
             \A o \in Ops :
               (PE'[o].HasSummary /\ (~PE[o].HasSummary \/ PE'[o].Summary # PE[o].Summary)) =>
                 \E p \in Pollers :
                   /\ poll[p].pc = "summarize"
                   /\ poll[p].op = o
                   /\ poll[p].snap.Done
                   /\ poll[p].snap.Output = PE'[o].Output
                   /\ PE'[o].Done
                   /\ poll'[p].resp[o].summary = PE'[o].Summary ]_vars

\* C33 witness: summaries are cached for the agent and for the build test,
\* both done with output.
C33_Witness ==
    /\ Registered
    /\ PE.Claude.HasSummary
    /\ PE.Claude.Output # <<>>
    /\ PE.BazelTest.HasSummary
    /\ PE.BazelTest.Status = "error"
    /\ testInvoked

\* C34: of two consecutive polls of a task, the output the first one showed
\* is a prefix of the output the second one shows, also when the task became
\* done in between.
C34_OutputAppendOnly ==
    taskSeen.prev.status # "none" =>
        /\ Len(taskSeen.prev.output) <= Len(taskSeen.cur.output)
        /\ SubSeq(taskSeen.cur.output, 1, Len(taskSeen.prev.output)) = taskSeen.prev.output

\* C35: the repo Operation's lock is not held while manageRepo has an
\* external process running or waits for one: neither during the git
\* clone/pull nor during getHeadCommit's git rev-parse.
C35_NoLockAcrossProcess ==
    repoPC \in {"reading", "head"} => ~repoLock

\* C36: a call of manageRepo that chooses git pull found, at its os.Stat, a
\* clone directory holding a repository a clone has completed.
C36_PullOnlyOnCompletedClone ==
    sync.cur.operation = "git pull" => sync.cur.before = "repo"

\* C37: once executePromptTask has launched the agent goroutine, the agent
\* Operation eventually is done; once it has launched the build goroutine,
\* the build query and the build test eventually are done.
C37_LaunchedGetsDone ==
    /\ (Registered /\ llmPC # "idle") ~> (Registered /\ PE.Claude.Done)
    /\ (Registered /\ bazelPC # "idle")
         ~> (Registered /\ PE.BazelQuery.Done /\ PE.BazelTest.Done)

\* C38: for an execution whose prompt does not trigger the build, the build
\* goroutine is never launched, bazel is never invoked, and BazelQuery and
\* BazelTest stay as NewPromptExecution made them.
C38_UntriggeredBuildUntouched ==
    LET matches == /\ Len(taskPrompt) >= 5
                   /\ SubSeq(taskPrompt, 1, 5) = <<"t", "e", "s", "t", " ">>
                   /\ \E i \in 6..Len(taskPrompt) : ~IsSpace(taskPrompt[i])
        initial == [ Output |-> <<>>, Status |-> "running", Done |-> FALSE, Err |-> "nil",
                     Summary |-> <<>>, HasSummary |-> FALSE ]
    IN
    (Registered /\ ~matches) =>
        /\ bazelPC = "idle"
        /\ ~testInvoked
        /\ PE.BazelQuery = initial
        /\ PE.BazelTest = initial

\* C38 witness: an untriggered execution whose agent is done and has been
\* polled to the end, with the agent's summary cached.
C38_Witness ==
    /\ Registered
    /\ taskPrompt = <<"t", "e", "s", "t", " ", " ">>
    /\ orchPC = "returned"
    /\ PE.Claude.Done
    /\ PE.Claude.HasSummary
    /\ \E p \in Pollers : poll[p].pc = "respond" /\ poll[p].code = 200

\* C39: for a triggered prompt on any notebook name the handler accepted,
\* runBazelQueryAndTest does not crash the process, and when it is over the
\* build query and the build test are both done.
C39_BuildSurvivesAnyNotebook ==
    (Registered /\ bazelPC \notin {"idle", "reset"}) =>
        /\ ~crashed
        /\ bazelPC # "panicked"
        /\ bazelPC = "returned" => (PE.BazelQuery.Done /\ PE.BazelTest.Done)

\* C40: a run-prompt request with a wrong method, a malformed path, an empty
\* prompt or a notebook without a worktree is answered with an error status,
\* leaves the registry as it was and launches nothing; while the registry is
\* empty no goroutine and no process exists.
C40_RejectedChangesNothing ==
    /\ [](~Registered =>
            /\ orchPC = "idle" /\ llmPC = "idle" /\ bazelPC = "idle"
            /\ wg = 0 /\ cmd = NoCmd /\ ~testInvoked)
    /\ [][ \A method \in {"POST", "GET"}, pathOK \in BOOLEAN,
              prompt \in Prompts, nb \in NotebookNames :
             ( /\ apiRunPromptHandler(method, pathOK, prompt, nb)
               /\ \/ method # "POST"
                  \/ ~pathOK
                  \/ prompt = <<>>
                  \/ nb \notin {<<"o", "-", "r", "-", "1">>, <<"n", "b">>} )
             => /\ lastRunStatus' \in {400, 404, 405}
                /\ promptExecutions' = promptExecutions
                /\ orchPC' = orchPC /\ wg' = wg
                /\ llmPC' = llmPC /\ bazelPC' = bazelPC
                /\ cmd' = cmd /\ testInvoked' = testInvoked ]_vars

\* C40 witness: the last request was a GET, answered 405, and nothing is
\* registered or running.
C40_Witness ==
    /\ lastRunStatus = 405
    /\ ~Registered
    /\ orchPC = "idle"
    /\ cmd = NoCmd

=============================================================================
